---- MODULE Spec2Model ----
(***************************************************************************)
(* safe-kit: batch encoding (MultiSend), signature aggregation             *)
(* (SafeTransaction) and the transaction builders of the Safe facade.      *)
(*                                                                         *)
(* Text values (addresses, hex strings) are sequences of character codes,  *)
(* byte strings are sequences of numbers in 0..255.  The state machines    *)
(* share the variables: SpecEnc drives MultiSend.encode_transactions,      *)
(* SpecSig drives one SafeTransaction's signature map, Spec drives the     *)
(* builders of the Safe facade against a chain that other parties change,  *)
(* SpecSign and SpecTx drive signing, hashing and execution, SpecModules   *)
(* the module listing, SpecMulti the batch builder and SpecFactory the     *)
(* SafeFactory.                                                            *)
(***************************************************************************)
EXTENDS Integers, Sequences, FiniteSets, TLC

VARIABLES
    batch,        \* SpecEnc: the list[SafeTransactionData] handed to encode_transactions
    encResult,    \* SpecEnc: what the last encode_transactions call returned or raised
    signatures,   \* SafeTransaction.signatures: a dict, kept in insertion order
    sigRead,      \* SpecSig: what the last read of sorted_signatures_bytes gave
    chainNonce,   \* Spec: nonce() of the Safe contract
    chainOwners,  \* Spec: getOwners() of the Safe contract
    chainThreshold, \* Spec: getThreshold() of the Safe contract
    chainModules, \* Spec: the module list of the Safe contract, in list order
    chainPageCap, \* Spec: most modules one getModulesPaginated reply holds
    chainModulesEnd, \* the next pointer the contract gives at the end of the module list
    chainProxies, \* SpecFactory: the proxies the factory contract has deployed
    predicted,    \* SpecFactory: <<the first prediction made, its inputs and its outcome>>
    txData,       \* Spec: <<the SafeTransactionData of the caller's SafeTransaction>>, <<>> if none
    last,         \* Spec: the facade call made last, its arguments and the error it raised
    effects,      \* Spec: the chain reads, encodeABI calls and signer calls of that call
    heap,         \* SpecShare: the SafeTransactionData objects the caller holds
    txRef,        \* SpecShare: <<the object the returned SafeTransaction's data field is>>
    loop          \* SpecLoop: the local variables of a get_modules call in progress

encVars == <<batch, encResult>>
sigVars == <<signatures, sigRead>>
chainVars == <<chainNonce, chainOwners, chainThreshold, chainModules, chainPageCap,
              chainModulesEnd>>
safeVars == <<txData, last, effects>>
factoryVars == <<chainProxies, predicted>>
localVars == <<heap, txRef, loop>>
vars == <<encVars, sigVars, chainVars, safeVars, factoryVars, localVars>>

---------------------------------------------------------------------------
(* Bounds of the model *)

\* longest list of calls handed to encode_transactions
MaxCalls == 2

\* most owners one SafeTransaction collects signatures of in SpecSig
MaxSigs == 3

\* highest nonce the Safe contract reaches
MaxNonce == 2

\* most modules enabled on the Safe contract
MaxModules == 11

\* most proxies the factory contract deploys
MaxDeployed == 1

\* most SafeTransactionData objects the caller holds
MaxObjects == 2

\* most iterations of the loop of get_modules that are explored
MaxPages == 12

---------------------------------------------------------------------------
(* Characters and hex text *)

Digit(n) == 48 + n            \* '0'..'9'
Upper(n) == 55 + n            \* 'A'..'F' for n in 10..15
Lower(n) == 87 + n            \* 'a'..'f' for n in 10..15
CharX == Lower(33)            \* 'x'
CharBigX == Upper(33)         \* 'X'
Prefix0x == <<Digit(0), CharX>>

IsHexChar(c) ==
    \/ c \in Digit(0)..Digit(9)
    \/ c \in Upper(10)..Upper(15)
    \/ c \in Lower(10)..Lower(15)

\* the value of one hex digit, either letter case
Nibble(c) ==
    IF c <= Digit(9) THEN c - Digit(0)
    ELSE IF c <= Upper(15) THEN c - Upper(0)
    ELSE c - Lower(0)

Repeat(x, n) == [i \in 1..n |-> x]

HasPrefix0x(s) ==
    /\ Len(s) >= 2
    /\ s[1] = Digit(0)
    /\ s[2] \in {CharX, CharBigX}

StripPrefix(s) == IF HasPrefix0x(s) THEN SubSeq(s, 3, Len(s)) ELSE s

\* the hex digits of n (lower case), most significant first, no prefix
RECURSIVE HexDigits(_)
HexDigits(bytes) ==
    IF bytes = <<>> THEN <<>>
    ELSE LET b == Head(bytes)
             hi == b \div 16
             lo == b % 16
             ch(d) == IF d < 10 THEN Digit(d) ELSE Lower(d)
         IN  <<ch(hi), ch(lo)>> \o HexDigits(Tail(bytes))

\* HexBytes(text): strip an 0x/0X prefix, left-pad an odd number of digits
\* with one '0', then unhexlify; a character that is no hex digit raises
\* binascii.Error, a subclass of ValueError.
HexBytes(s) ==
    LET body == StripPrefix(s)
        padded == IF Len(s) % 2 = 1 THEN <<Digit(0)>> \o body ELSE body
    IN  IF \E i \in 1..Len(padded) : ~IsHexChar(padded[i])
        THEN [bytes |-> <<>>, ok |-> FALSE]
        ELSE [bytes |-> [i \in 1..(Len(padded) \div 2) |->
                           16 * Nibble(padded[2 * i - 1]) + Nibble(padded[2 * i])],
              ok |-> TRUE]

---------------------------------------------------------------------------
(* Fixed-width big-endian integers: int.to_bytes(width, byteorder="big") *)

\* whether n fits width bytes unsigned; to_bytes raises OverflowError otherwise
RECURSIVE Fits(_, _)
Fits(n, width) ==
    /\ n >= 0
    /\ IF width = 0 THEN n = 0 ELSE Fits(n \div 256, width - 1)

RECURSIVE ToBytesBE(_, _)
ToBytesBE(n, width) ==
    IF width = 0 THEN <<>>
    ELSE ToBytesBE(n \div 256, width - 1) \o <<n % 256>>

---------------------------------------------------------------------------
(* MultiSend.encode_transactions *)

ADDRESS_BYTES == 20
WORD_BYTES == 32

Returned(bytes) == [bytes |-> bytes, ok |-> TRUE, error |-> "", field |-> ""]
Raised(type, fld) == [bytes |-> <<>>, ok |-> FALSE, error |-> type, field |-> fld]

\* a slip of the length test: only a too long address is refused
AddressLengthAtMost(to_address) == Len(to_address) <= ADDRESS_BYTES

\* the address-length test of the loop body
AddressLengthOk(to_address) == Len(to_address) = ADDRESS_BYTES

\* int.to_bytes(width, byteorder="little")
RECURSIVE ToBytesLE(_, _)
ToBytesLE(n, width) ==
    IF width = 0 THEN <<>>
    ELSE <<n % 256>> \o ToBytesLE(n \div 256, width - 1)

\* a slip of the record: value written little-endian
EncodeRecordLittleEndian(operation, to_address, value, data) ==
    ToBytesBE(operation, 1) \o to_address \o ToBytesLE(value, WORD_BYTES)
        \o ToBytesBE(Len(data), WORD_BYTES) \o data

\* a slip of the record: data_length counts the hex digits, not the bytes
EncodeRecordHexLength(operation, to_address, value, data) ==
    ToBytesBE(operation, 1) \o to_address \o ToBytesBE(value, WORD_BYTES)
        \o ToBytesBE(2 * Len(data), WORD_BYTES) \o data

\* the record appended for one call: operation + to + value + data_length + data
EncodeRecord(operation, to_address, value, data) ==
    ToBytesBE(operation, 1) \o to_address \o ToBytesBE(value, WORD_BYTES)
        \o ToBytesBE(Len(data), WORD_BYTES) \o data

\* the for loop over transactions, from call i on, with encoded_data so far
RECURSIVE EncodeFrom(_, _, _)
EncodeFrom(transactions, i, encoded_data) ==
    IF i > Len(transactions) THEN Returned(encoded_data)
    ELSE
        LET tx == transactions[i]
            to_address == HexBytes(tx.to)
            data == HexBytes(tx.data)
        IN  IF ~Fits(tx.operation, 1) THEN Raised("OverflowError", "operation")
            ELSE IF ~to_address.ok THEN Raised("ValueError", "to")
            ELSE IF ~AddressLengthOk(to_address.bytes) THEN Raised("ValueError", "to")
            ELSE IF ~Fits(tx.value, WORD_BYTES) THEN Raised("OverflowError", "value")
            ELSE IF ~data.ok THEN Raised("ValueError", "data")
            ELSE EncodeFrom(transactions, i + 1,
                    encoded_data \o EncodeRecord(tx.operation, to_address.bytes,
                                                 tx.value, data.bytes))

encode_transactions(transactions) == EncodeFrom(transactions, 1, <<>>)

---------------------------------------------------------------------------
(* Inputs of the batch encoder *)

\* "0x" followed by 40 hex digits ending in tail
HexAddr(tail) == Prefix0x \o Repeat(Digit(0), 40 - Len(tail)) \o tail

TxData(to, value, data, operation) ==
    [operation |-> operation, value |-> value, data |-> data, to |-> to]

ToPlain == Prefix0x \o Repeat(Digit(1), 40)                    \* 20 bytes
ToNoPrefix == Repeat(Upper(10), 40)                            \* 20 bytes, no 0x, upper case
ToOddDigits == Prefix0x \o Repeat(Digit(9), 39)                \* 39 digits: padded to 20 bytes
ToShort == Prefix0x \o Repeat(Digit(2), 38)                    \* 19 bytes
ToLong == Prefix0x \o Repeat(Digit(3), 42)                     \* 21 bytes
ToNotHex == Prefix0x \o <<Upper(24), Lower(32), Lower(23)>>    \* "0xOwn": no hex text

DataEmpty == Prefix0x                                                        \* "0x"
DataAbcdef == Prefix0x \o <<Lower(10), Lower(11), Lower(12), Lower(13), Lower(14), Lower(15)>>
DataOdd == Prefix0x \o <<Lower(10), Lower(11), Lower(12)>>                   \* "0xabc": 0a bc
DataNotHex == Prefix0x \o <<Lower(35), Lower(35)>>                           \* "0xzz"

Calls ==
    { TxData(ToPlain, 100, DataEmpty, 0),
      TxData(ToNoPrefix, 0, DataAbcdef, 1),
      TxData(ToOddDigits, 257, DataOdd, 1),
      TxData(ToShort, 0, DataEmpty, 0),
      TxData(ToLong, 1, DataAbcdef, 1),
      TxData(ToNotHex, 0, DataEmpty, 0),
      TxData(ToPlain, -1, DataEmpty, 0),
      TxData(ToShort, 0, DataEmpty, 256),
      TxData(ToPlain, 0, DataNotHex, 0) }

NotRead == [bytes |-> <<>>, ok |-> FALSE, error |-> "not read", field |-> ""]
NotCalled == [bytes |-> <<>>, ok |-> FALSE, error |-> "not called", field |-> ""]

---------------------------------------------------------------------------
(* Values of the Safe facade *)

None == <<>>
Some(x) == <<x>>

SENTINEL == HexAddr(<<Digit(1)>>)     \* 0x0000000000000000000000000000000000000001
ZERO_ADDRESS == HexAddr(<<>>)         \* 0x0000000000000000000000000000000000000000

\* the result of encodeABI(fn_name, args), and hex text used as data
AbiData(fn_name, args) == [fn_name |-> fn_name, args |-> args]
RawData(text) == [fn_name |-> "", args |-> <<text>>]

SafeTransactionData(to, value, data, operation, nonce) ==
    [operation |-> operation, value |-> value, data |-> data, to |-> to,
     nonce |-> nonce, safe_tx_gas |-> 0, base_gas |-> 0,
     gas_price |-> 0, gas_token |-> ZERO_ADDRESS, refund_receiver |-> ZERO_ADDRESS]

NoCall == [error |-> "", args |-> <<>>, op |-> ""]

NoEffects ==
    [nonceReads |-> <<>>,       \* the values nonce().call() returned
     thresholdReads |-> <<>>,   \* the values getThreshold().call() returned
     ownersReads |-> <<>>,      \* the lists getOwners().call() returned
     pageRequests |-> 0,        \* getModulesPaginated(...).call() made
     abiCalls |-> <<>>,         \* encodeABI calls, in order
     chainIdReads |-> 0,        \* eth_adapter.get_chain_id() calls
     hashReads |-> 0,           \* getTransactionHash(...).call() made
     signerReturned |-> <<>>,   \* what sign_typed_data / sign_message returned
     signerReads |-> <<>>,      \* what eth_adapter.get_signer_address() returned
     typedData |-> <<>>,        \* the documents get_eip712_data returned
     hashNonces |-> <<>>,       \* the nonce argument of each getTransactionHash request
     pages |-> <<>>,            \* the getModulesPaginated requests, with their replies
     modulesReturned |-> <<>>,  \* <<the list get_modules returned>>
     transacts |-> <<>>,        \* the transactions submitted, with the chain's replies
     raised |-> <<>>,           \* <<the exception a failed submission ended in>>
     factoryCalls |-> <<>>,     \* the calls and transactions to the proxy factory
     addressReturned |-> <<>>,  \* <<the address returned, or the returned Safe is bound to>>
     instance |-> <<>>,         \* <<the Safe instance the constructor gave>>
     storageReads |-> <<>>,     \* the get_storage_at requests, with their replies
     contractCalls |-> <<>>,    \* other calls and transactions to the Safe contract
     boolReturned |-> <<>>,     \* <<the truth value returned>>
     httpRequests |-> <<>>,     \* the requests sent to the Safe Transaction Service
     jsonReturned |-> <<>>,     \* <<what _handle_response returned>>
     serviceRaised |-> <<>>]    \* <<the SafeServiceError raised>>

\* no get_modules call in progress
NoLoop == [pc |-> "idle", start |-> <<>>, modules |-> <<>>, requests |-> 0]

\* the caller's objects and the loop's variables in the specifications that do not use them
LocalUnused ==
    /\ heap = <<>>
    /\ txRef = None
    /\ loop = NoLoop

\* the facade's variables in the specifications that do not use it
SafeUnused ==
    /\ LocalUnused
    /\ chainNonce = 0
    /\ chainOwners = <<>>
    /\ chainThreshold = 1
    /\ chainModules = <<>>
    /\ chainPageCap = 1
    /\ chainModulesEnd = SENTINEL
    /\ chainProxies = {}
    /\ predicted = None
    /\ txData = None
    /\ last = NoCall
    /\ effects = NoEffects

---------------------------------------------------------------------------
(* SpecEnc: a caller builds a list of calls and encodes it *)

InitEnc ==
    /\ batch = <<>>
    /\ encResult = NotCalled
    /\ signatures = <<>>
    /\ sigRead = NotRead
    /\ SafeUnused

AddCall ==
    /\ Len(batch) < MaxCalls
    /\ \E c \in Calls : batch' = Append(batch, c)
    /\ encResult' = NotCalled
    /\ UNCHANGED <<localVars, sigVars, chainVars, factoryVars, safeVars>>

Encode ==
    /\ encResult = NotCalled
    /\ encResult' = encode_transactions(batch)
    /\ UNCHANGED <<localVars, batch, sigVars, chainVars, factoryVars, safeVars>>

ClearBatch ==
    /\ encResult # NotCalled
    /\ batch' = <<>>
    /\ encResult' = NotCalled
    /\ UNCHANGED <<localVars, sigVars, chainVars, factoryVars, safeVars>>

NextEnc == AddCall \/ Encode \/ ClearBatch

SpecEnc == InitEnc /\ [][NextEnc]_vars

---------------------------------------------------------------------------
(* SafeTransaction: add_signature and sorted_signatures_bytes *)

\* int(x, 16): the number a hex text spells, either letter case, with or
\* without the 0x prefix, as its digits without leading zeros; text that is
\* no hex number raises ValueError
IntParses(x) ==
    LET body == StripPrefix(x)
    IN  body # <<>> /\ \A i \in 1..Len(body) : IsHexChar(body[i])

RECURSIVE StripZeros(_)
StripZeros(digits) ==
    IF digits # <<>> /\ Head(digits) = 0 THEN StripZeros(Tail(digits)) ELSE digits

IntKey(x) ==
    LET body == StripPrefix(x)
    IN  StripZeros([i \in 1..Len(body) |-> Nibble(body[i])])

\* a < b for two sequences of equal length, position by position
RECURSIVE LexLess(_, _)
LexLess(a, b) ==
    /\ a # <<>>
    /\ \/ Head(a) < Head(b)
       \/ Head(a) = Head(b) /\ LexLess(Tail(a), Tail(b))

\* a < b for two numbers given by their digits without leading zeros
IntLess(a, b) ==
    \/ Len(a) < Len(b)
    \/ Len(a) = Len(b) /\ LexLess(a, b)

\* a < b for two texts, by character code, a proper prefix first
RECURSIVE StrLess(_, _)
StrLess(a, b) ==
    /\ b # <<>>
    /\ \/ a = <<>>
       \/ Head(a) < Head(b)
       \/ Head(a) = Head(b) /\ StrLess(Tail(a), Tail(b))

\* self.signatures[owner] = signature: the entry of an equal key is replaced
\* where it stands, a new key goes last
DictSet(d, owner, signature) ==
    IF \E i \in 1..Len(d) : d[i].owner = owner
    THEN [i \in 1..Len(d) |->
            IF d[i].owner = owner THEN [owner |-> owner, signature |-> signature]
            ELSE d[i]]
    ELSE Append(d, [owner |-> owner, signature |-> signature])

DictKeys(d) == [i \in 1..Len(d) |-> d[i].owner]
DictGet(d, owner) == (CHOOSE i \in 1..Len(d) : d[i].owner = owner)

\* a slip: the map is replaced by one holding the new entry only
OnlyLastSignature(sigs, owner, signature) ==
    <<[owner |-> owner, signature |-> signature]>>

add_signature(sigs, owner, signature) == DictSet(sigs, owner, signature)

\* sorted() is stable: x goes behind every element that is not greater
RECURSIVE InsertByInt(_, _)
InsertByInt(sorted, x) ==
    IF sorted = <<>> THEN <<x>>
    ELSE IF IntLess(IntKey(x), IntKey(Head(sorted))) THEN <<x>> \o sorted
    ELSE <<Head(sorted)>> \o InsertByInt(Tail(sorted), x)

RECURSIVE SortByInt(_, _)
SortByInt(keys, n) ==
    IF n = 0 THEN <<>> ELSE InsertByInt(SortByInt(keys, n - 1), keys[n])

RECURSIVE InsertByStr(_, _)
InsertByStr(sorted, x) ==
    IF sorted = <<>> THEN <<x>>
    ELSE IF StrLess(x, Head(sorted)) THEN <<x>> \o sorted
    ELSE <<Head(sorted)>> \o InsertByStr(Tail(sorted), x)

RECURSIVE SortByStr(_, _)
SortByStr(keys, n) ==
    IF n = 0 THEN <<>> ELSE InsertByStr(SortByStr(keys, n - 1), keys[n])

\* a slip of the sort: no sort, the keys in insertion order
InsertionOrderOwners(keys) == keys

\* a slip of the sort: sorted(keys), by the text of the key
StringOrderOwners(keys) == SortByStr(keys, Len(keys))

\* sorted(self.signatures.keys(), key=lambda x: int(x, 16))
SortedOwners(keys) == SortByInt(keys, Len(keys))

\* the loop over sorted_owners, from owner i on
RECURSIVE ConcatSignatures(_, _, _, _)
ConcatSignatures(sigs, sorted_owners, i, signature_bytes) ==
    IF i > Len(sorted_owners) THEN Returned(signature_bytes)
    ELSE LET sig == HexBytes(sigs[DictGet(sigs, sorted_owners[i])].signature)
         IN  IF ~sig.ok THEN Raised("ValueError", "signature")
             ELSE ConcatSignatures(sigs, sorted_owners, i + 1, signature_bytes \o sig.bytes)

sorted_signatures_bytes(sigs) ==
    IF \E i \in 1..Len(sigs) : ~IntParses(sigs[i].owner)
    THEN Raised("ValueError", "owner")
    ELSE ConcatSignatures(sigs, SortedOwners(DictKeys(sigs)), 1, <<>>)

---------------------------------------------------------------------------
(* Inputs of the signature map *)

SIGNATURE_BYTES == 65

OwnerLowA == HexAddr(<<Lower(10)>>)              \* 0x00..0a
OwnerUpB == HexAddr(<<Upper(11)>>)               \* 0x00..0B: after 0x00..0a as a number, before it as text
OwnerUpA == HexAddr(<<Upper(10)>>)               \* 0x00..0A: the address 0x00..0a in other letter case
OwnerHigh == HexAddr(<<Digit(1), Digit(0), Digit(0)>>)   \* 0x00..100
OwnerNotHex == Prefix0x \o <<Upper(28), Lower(18)>>      \* "0xSi": no hex text
Owners == {OwnerLowA, OwnerUpB, OwnerUpA, OwnerHigh, OwnerNotHex}

\* r (32 bytes of fill), s (32 bytes of fill), v, as hex text
SigText(fill, v) == HexDigits(Repeat(fill, 64) \o <<v>>)
SigOne == Prefix0x \o SigText(17, 27)
SigTwo == SigText(34, 28)                        \* as bytes.hex() gives it: no prefix
SigShort == Prefix0x \o HexDigits(<<51, 27>>)    \* 2 bytes
SignatureTexts == {SigOne, SigTwo, SigShort}

---------------------------------------------------------------------------
(* SpecSig: a caller adds signatures to one SafeTransaction and reads the   *)
(* sorted signature bytes                                                  *)

InitSig ==
    /\ signatures = <<>>
    /\ sigRead = NotRead
    /\ batch = <<>>
    /\ encResult = NotCalled
    /\ SafeUnused

AddSignature ==
    /\ \E owner \in Owners, signature \in SignatureTexts :
          /\ Len(DictSet(signatures, owner, signature)) <= MaxSigs
          /\ signatures' = add_signature(signatures, owner, signature)
    /\ sigRead' = NotRead
    /\ UNCHANGED <<localVars, encVars, chainVars, factoryVars, safeVars>>

ReadSortedSignatures ==
    /\ sigRead' = sorted_signatures_bytes(signatures)
    /\ UNCHANGED <<localVars, signatures, encVars, chainVars, factoryVars, safeVars>>

NextSig == AddSignature \/ ReadSortedSignatures

SpecSig == InitSig /\ [][NextSig]_vars

---------------------------------------------------------------------------
(* The Safe contract, as the facade reads it *)

PAGE_SIZE == 10

Min(a, b) == IF a < b THEN a ELSE b

\* list.index(x): the first position of x (from 1), 0 when x is absent
IndexOf(list, x) ==
    IF \E i \in 1..Len(list) : list[i] = x
    THEN CHOOSE i \in 1..Len(list) : list[i] = x /\ \A j \in 1..(i - 1) : list[j] # x
    ELSE 0

\* getModulesPaginated(start, pageSize).call(): the modules behind start, at
\* most pageSize and at most what the contract puts in one reply, and the
\* next pointer: the last module of the page, or at the end of the list the
\* sentinel (the zero address for a contract whose list was never set up)
getModulesPaginated(start, page_size) ==
    LET idx == IF start = SENTINEL THEN 0 ELSE IndexOf(chainModules, start)
        n == Min(Min(page_size, chainPageCap), Len(chainModules) - idx)
        array == SubSeq(chainModules, idx + 1, idx + n)
    IN  [array |-> array,
         next |-> IF idx + n >= Len(chainModules) THEN chainModulesEnd ELSE array[n]]

---------------------------------------------------------------------------
(* Safe: the builders *)

\* a slip of the test: `if not transaction_data.nonce`
NonceFalsy(transaction_data) ==
    transaction_data.nonce = None \/ transaction_data.nonce = Some(0)

\* transaction_data.nonce is None
NonceUnset(transaction_data) == transaction_data.nonce = None

\* a slip: the nonce of the transaction built before is kept as a cache
CreateWithCachedNonce(transaction_data, eff) ==
    IF transaction_data.nonce # None
    THEN [data |-> transaction_data, eff |-> eff]
    ELSE IF txData # None /\ txData[1].nonce # None
    THEN [data |-> [transaction_data EXCEPT !.nonce = txData[1].nonce], eff |-> eff]
    ELSE [data |-> [transaction_data EXCEPT !.nonce = Some(chainNonce)],
          eff |-> [eff EXCEPT !.nonceReads = Append(@, chainNonce)]]

\* create_transaction: the data of the SafeTransaction returned and the
\* effects so far, with the nonce read when the nonce is unset
create_transaction(transaction_data, eff) ==
    IF NonceUnset(transaction_data)
    THEN [data |-> [transaction_data EXCEPT !.nonce = Some(chainNonce)],
          eff |-> [eff EXCEPT !.nonceReads = Append(@, chainNonce)]]
    ELSE [data |-> transaction_data, eff |-> eff]

\* a slip of the lookup: owners[index - 1] without the test for index 0,
\* which is the last entry for the first one
PreviousNoSentinel(list, index) ==
    IF index = 1 THEN list[Len(list)] ELSE list[index - 1]

\* the sentinel for the first entry, else the entry before (index from 1)
PreviousElement(list, index) ==
    IF index = 1 THEN SENTINEL ELSE list[index - 1]

\* _get_previous_owner: found is FALSE where it raises ValueError
get_previous_owner(owners, owner) ==
    LET index == IndexOf(owners, owner)
    IN  IF index = 0 THEN [found |-> FALSE, prev |-> ZERO_ADDRESS]
        ELSE [found |-> TRUE, prev |-> PreviousElement(owners, index)]

\* one getModulesPaginated request and its reply
PageRequest(start, page) == [start |-> start, array |-> page.array, next |-> page.next]

\* a slip of get_modules: the first page only
FirstPageOnly(start, modules, requests) ==
    [modules |-> modules \o getModulesPaginated(start, PAGE_SIZE).array,
     requests |-> Append(requests,
                         PageRequest(start, getModulesPaginated(start, PAGE_SIZE)))]

\* a slip of get_modules: the loop ends at the first page that is not full
RECURSIVE GetModulesUntilShortPage(_, _, _)
GetModulesUntilShortPage(start, modules, requests) ==
    LET page == getModulesPaginated(start, PAGE_SIZE)
        gathered == modules \o page.array
        made == Append(requests, PageRequest(start, page))
    IN  IF Len(page.array) < PAGE_SIZE
        THEN [modules |-> gathered, requests |-> made]
        ELSE GetModulesUntilShortPage(page.next, gathered, made)

\* the while loop of get_modules, from the request at start on; requests
\* are the requests made so far
RECURSIVE GetModulesFrom(_, _, _)
GetModulesFrom(start, modules, requests) ==
    LET page == getModulesPaginated(start, PAGE_SIZE)
        gathered == modules \o page.array
        made == Append(requests, PageRequest(start, page))
    IN  IF page.next = SENTINEL \/ page.next = ZERO_ADDRESS
        THEN [modules |-> gathered, requests |-> made]
        ELSE GetModulesFrom(page.next, gathered, made)

get_modules == GetModulesFrom(SENTINEL, <<>>, <<>>)

SAFE_ADDRESS == HexAddr(<<Lower(10), Lower(10)>>)

\* a builder raised: the caller gets no transaction
BuilderRaises(op, args, error, eff) ==
    /\ last' = [error |-> error, args |-> args, op |-> op]
    /\ txData' = None
    /\ signatures' = <<>>
    /\ effects' = eff

\* a builder's last lines: return self.create_transaction(SafeTransactionData(...)),
\* a SafeTransaction with no signatures yet
BuilderReturns(op, args, transaction_data, eff) ==
    LET made == create_transaction(transaction_data, eff)
    IN  /\ last' = [error |-> "", args |-> args, op |-> op]
        /\ txData' = Some(made.data)
        /\ signatures' = <<>>
        /\ effects' = made.eff

\* threshold = self.get_threshold() when the argument is None
ResolveThreshold(threshold, eff) ==
    IF threshold = None
    THEN [eff |-> [eff EXCEPT !.thresholdReads = Append(@, chainThreshold)],
          threshold |-> chainThreshold]
    ELSE [eff |-> eff, threshold |-> threshold[1]]

---------------------------------------------------------------------------
(* SafeTransactionData.get_eip712_data *)

EIP712_DOMAIN_TYPE ==
    << [type |-> "uint256", name |-> "chainId"],
       [type |-> "address", name |-> "verifyingContract"] >>

SAFE_TX_TYPE ==
    << [type |-> "address", name |-> "to"],
       [type |-> "uint256", name |-> "value"],
       [type |-> "bytes", name |-> "data"],
       [type |-> "uint8", name |-> "operation"],
       [type |-> "uint256", name |-> "safeTxGas"],
       [type |-> "uint256", name |-> "baseGas"],
       [type |-> "uint256", name |-> "gasPrice"],
       [type |-> "address", name |-> "gasToken"],
       [type |-> "address", name |-> "refundReceiver"],
       [type |-> "uint256", name |-> "nonce"] >>

\* HexBytes(data) of a transaction's data: the bytes its hex text spells; the
\* encoding encodeABI returned stands for its own bytes
DataHexBytes(data) ==
    IF data.fn_name = ""
    THEN [ok |-> HexBytes(data.args[1]).ok,
          data |-> [fn_name |-> "", args |-> <<HexBytes(data.args[1]).bytes>>]]
    ELSE [ok |-> TRUE, data |-> data]

\* a slip of the message: the nonce resolved to 0 in the call itself
NonceSetInPlace(self) ==
    IF self.nonce # None THEN self ELSE [self EXCEPT !.nonce = Some(0)]

\* the call after get_eip712_data: nothing is assigned
SelfAfterEip712(self) == self

\* get_eip712_data(chain_id, safe_address): the document, ok FALSE where
\* HexBytes(self.data) raises, and the call as the method leaves it
get_eip712_data(self, chain_id, safe_address) ==
    [ok |-> DataHexBytes(self.data).ok,
     self |-> SelfAfterEip712(self),
     document |->
        [types |-> [EIP712Domain |-> EIP712_DOMAIN_TYPE, SafeTx |-> SAFE_TX_TYPE],
         primaryType |-> "SafeTx",
         domain |-> [chainId |-> chain_id, verifyingContract |-> safe_address],
         message |->
            [operation |-> self.operation,
             value |-> self.value,
             data |-> DataHexBytes(self.data).data,
             to |-> self.to,
             nonce |-> IF self.nonce # None THEN self.nonce[1] ELSE 0,
             safeTxGas |-> self.safe_tx_gas,
             baseGas |-> self.base_gas,
             gasPrice |-> self.gas_price,
             gasToken |-> self.gas_token,
             refundReceiver |-> self.refund_receiver]]]

---------------------------------------------------------------------------
(* Safe: signing *)

\* test_safe.py's adapter: get_chain_id() returns 1
CHAIN_ID == 1

\* a slip: the test for a signer is left out
SignerNotTested(signer_address) == FALSE

\* `if not signer_address`: None, and the empty text
NoSigner(signer_address) == signer_address = None \/ signer_address = Some(<<>>)

\* a slip of the order: get_chain_id() called before the signer is tested
ChainIdReadFirst(eff) == [eff EXCEPT !.chainIdReads = 1]

\* the calls made when the signer is tested: get_signer_address() only
EffectsAtSignerTest(eff) == eff

\* a slip of the branches: any other method signs typed data, the default
MethodBranchDefaultTyped(method) ==
    IF method = "eth_sign" THEN "legacy" ELSE "typed"

\* the if / elif / else over method
MethodBranch(method) ==
    IF method = "eth_sign_typed_data" THEN "typed"
    ELSE IF method = "eth_sign" THEN "legacy"
    ELSE "unsupported"

\* a slip of the adjustment: v normalised to 27/28 instead of v += 4
AdjustVTo27(v) == IF v < 27 THEN v + 27 ELSE v

\* v += 4
AdjustV(v) == v + 4

\* the eth_sign branch after sign_message: r + s + bytes([v + 4]) as hex text;
\* sig_bytes[64] raises IndexError on a short signature, bytes([v]) raises
\* ValueError when v is no byte
LegacySignature(signature) ==
    LET sig_bytes == HexBytes(signature).bytes
    IN  IF Len(sig_bytes) < SIGNATURE_BYTES
        THEN [error |-> "IndexError", text |-> <<>>]
        ELSE LET r == SubSeq(sig_bytes, 1, 32)
                 s == SubSeq(sig_bytes, 33, 64)
                 v == AdjustV(sig_bytes[65])
             IN  IF v > 255 THEN [error |-> "ValueError", text |-> <<>>]
                 ELSE [error |-> "", text |-> HexDigits(r \o s \o <<v>>)]

---------------------------------------------------------------------------
(* Inputs of the facade *)

\* 0x00..d1, 0x00..d2, ..., 0x00..da, ...
ModuleAddr(i) == HexAddr(<<Lower(13), IF i < 10 THEN Digit(i) ELSE Lower(i)>>)
ModuleList(n) == [i \in 1..n |-> ModuleAddr(i)]
ModuleLists == {ModuleList(n) : n \in 0..MaxModules}
PageCaps == {1, PAGE_SIZE}

OwnerLists ==
    { <<OwnerLowA>>,
      <<OwnerLowA, OwnerUpB>>,
      <<OwnerUpB, OwnerHigh, OwnerLowA>> }
OwnerArgs == {OwnerLowA, OwnerUpB, OwnerHigh, OwnerUpA}

SIGNER == OwnerUpB

\* get_signer_address(): no signer, an empty text, the signer's address
SignerAddresses == {None, Some(<<>>), Some(SIGNER)}

TxInputs ==
    { SafeTransactionData(ToPlain, 100, RawData(DataEmpty), 0, None),
      SafeTransactionData(ToPlain, 100, RawData(DataEmpty), 0, Some(0)),
      SafeTransactionData(ToPlain, 100, RawData(DataEmpty), 0, Some(1)),
      [SafeTransactionData(ToNoPrefix, 0, RawData(DataAbcdef), 1, None)
          EXCEPT !.safe_tx_gas = 7, !.base_gas = 8, !.gas_price = 9,
                 !.gas_token = ToPlain, !.refund_receiver = SAFE_ADDRESS] }

\* what the signer returns: r, s and v = 27, 28, 251, 252, and a 64-byte text
SignerReturns ==
    { SigOne, SigTwo, SigText(17, 251), Prefix0x \o SigText(17, 252),
      HexDigits(Repeat(17, 64)) }

---------------------------------------------------------------------------
(* Spec: callers use one Safe facade while the chain moves on *)

Init ==
    /\ chainNonce = 0
    /\ chainOwners \in OwnerLists
    /\ chainThreshold = 1
    /\ chainModules \in ModuleLists
    /\ chainPageCap \in PageCaps
    /\ chainModulesEnd = SENTINEL
    /\ chainProxies = {}
    /\ predicted = None
    /\ txData = None
    /\ signatures = <<>>
    /\ last = NoCall
    /\ effects = NoEffects
    /\ LocalUnused
    /\ batch = <<>>
    /\ encResult = NotCalled
    /\ sigRead = NotRead

\* another party executes a Safe transaction: the nonce moves on, and the
\* transaction may have changed the owners
ChainExecutes ==
    /\ chainNonce < MaxNonce
    /\ chainNonce' = chainNonce + 1
    /\ \E owners \in OwnerLists :
          /\ chainOwners' = owners
          /\ chainThreshold' = Min(2, Len(owners))
    /\ UNCHANGED <<localVars, chainModules, chainPageCap, chainModulesEnd, factoryVars,
                   safeVars, sigVars, encVars>>

CreateTransaction ==
    /\ \E transaction_data \in TxInputs :
          BuilderReturns("create_transaction", <<transaction_data>>,
                         transaction_data, NoEffects)
    /\ UNCHANGED <<localVars, chainVars, factoryVars, sigRead, encVars>>

CreateRejectionTransaction ==
    /\ \E nonce \in 0..MaxNonce :
          BuilderReturns("create_rejection_transaction", <<nonce>>,
              SafeTransactionData(SAFE_ADDRESS, 0, RawData(DataEmpty), 0, Some(nonce)),
              NoEffects)
    /\ UNCHANGED <<localVars, chainVars, factoryVars, sigRead, encVars>>

CreateRemoveOwnerTransaction ==
    /\ \E owner \in OwnerArgs, threshold \in {None, Some(1)} :
          LET th == ResolveThreshold(threshold, NoEffects)
              eff == [th.eff EXCEPT !.ownersReads = Append(@, chainOwners)]
              prev_owner == get_previous_owner(chainOwners, owner)
              data == AbiData("removeOwner", <<prev_owner.prev, owner, th.threshold>>)
          IN  IF ~prev_owner.found
              THEN BuilderRaises("create_remove_owner_transaction", <<owner, threshold>>,
                                 "ValueError", eff)
              ELSE BuilderReturns("create_remove_owner_transaction", <<owner, threshold>>,
                      SafeTransactionData(SAFE_ADDRESS, 0, data, 0, None),
                      [eff EXCEPT !.abiCalls = Append(@, data)])
    /\ UNCHANGED <<localVars, chainVars, factoryVars, sigRead, encVars>>

CreateSwapOwnerTransaction ==
    /\ \E old_owner \in OwnerArgs, new_owner \in {OwnerUpA} :
          LET eff == [NoEffects EXCEPT !.ownersReads = Append(@, chainOwners)]
              prev_owner == get_previous_owner(chainOwners, old_owner)
              data == AbiData("swapOwner", <<prev_owner.prev, old_owner, new_owner>>)
          IN  IF ~prev_owner.found
              THEN BuilderRaises("create_swap_owner_transaction", <<old_owner, new_owner>>,
                                 "ValueError", eff)
              ELSE BuilderReturns("create_swap_owner_transaction", <<old_owner, new_owner>>,
                      SafeTransactionData(SAFE_ADDRESS, 0, data, 0, None),
                      [eff EXCEPT !.abiCalls = Append(@, data)])
    /\ UNCHANGED <<localVars, chainVars, factoryVars, sigRead, encVars>>

CreateDisableModuleTransaction ==
    /\ \E module_address \in {ModuleAddr(i) : i \in 1..(MaxModules + 1)} :
          LET got == get_modules
              modules == got.modules
              eff == [NoEffects EXCEPT !.pageRequests = Len(got.requests),
                                       !.pages = got.requests]
              index == IndexOf(modules, module_address)
              data == AbiData("disableModule",
                              <<PreviousElement(modules, index), module_address>>)
          IN  IF index = 0
              THEN BuilderRaises("create_disable_module_transaction", <<module_address>>,
                                 "ValueError", eff)
              ELSE BuilderReturns("create_disable_module_transaction", <<module_address>>,
                      SafeTransactionData(SAFE_ADDRESS, 0, data, 0, None),
                      [eff EXCEPT !.abiCalls = Append(@, data)])
    /\ UNCHANGED <<localVars, chainVars, factoryVars, sigRead, encVars>>

\* get_transaction_hash: HexBytes(data), then getTransactionHash(...).call()
\* with the ten fields; an unset nonce is no uint256 and the request raises
get_transaction_hash(transaction_data, eff) ==
    IF ~DataHexBytes(transaction_data.data).ok
    THEN [error |-> "ValueError", eff |-> eff]
    ELSE LET asked == [eff EXCEPT !.hashReads = @ + 1,
                                  !.hashNonces = Append(@, transaction_data.nonce)]
         IN  IF transaction_data.nonce = None
             THEN [error |-> "Web3ValidationError", eff |-> asked]
             ELSE [error |-> "", eff |-> asked]

\* sign_transaction raised: the transaction is as it was
SignRaises(method, error, eff) ==
    /\ last' = [error |-> error, args |-> <<method>>, op |-> "sign_transaction"]
    /\ effects' = eff
    /\ UNCHANGED <<txData, signatures>>

SignReturns(method, signer_address, signature, eff) ==
    /\ last' = [error |-> "", args |-> <<method>>, op |-> "sign_transaction"]
    /\ effects' = eff
    /\ signatures' = add_signature(signatures, signer_address, signature)
    /\ UNCHANGED txData

\* safe.sign_transaction(safe_transaction, method) with an adapter whose
\* signer address is one of signer_addresses and whose signer returns one of
\* signer_returns
SignTransactionWith(signer_addresses, signer_returns) ==
    /\ txData # None
    /\ \E signer_address \in signer_addresses,
          method \in {"eth_sign_typed_data", "eth_sign", "personal_sign"},
          returned \in signer_returns :
          LET read == [NoEffects EXCEPT !.signerReads = <<signer_address>>] IN
          IF NoSigner(signer_address)
          THEN SignRaises(method, "ValueError: no signer", EffectsAtSignerTest(read))
          ELSE LET eff == [read EXCEPT !.chainIdReads = 1] IN
              IF MethodBranch(method) = "typed"
              THEN LET eip712 == get_eip712_data(txData[1], CHAIN_ID, SAFE_ADDRESS)
                   IN  IF ~eip712.ok
                       THEN SignRaises(method, "ValueError", eff)
                       ELSE SignReturns(method, signer_address[1], returned,
                               [eff EXCEPT !.typedData = <<eip712.document>>,
                                           !.signerReturned = <<returned>>])
              ELSE IF MethodBranch(method) = "legacy"
              THEN LET hashed == get_transaction_hash(txData[1], eff)
                       signed == [hashed.eff EXCEPT !.signerReturned = <<returned>>]
                       legacy == LegacySignature(returned)
                   IN  IF hashed.error # ""
                       THEN SignRaises(method, hashed.error, hashed.eff)
                       ELSE IF legacy.error # ""
                       THEN SignRaises(method, legacy.error, signed)
                       ELSE SignReturns(method, signer_address[1], legacy.text, signed)
              ELSE SignRaises(method, "ValueError: unsupported method", eff)
    /\ UNCHANGED <<localVars, chainVars, factoryVars, sigRead, encVars>>

SignTransaction == SignTransactionWith(SignerAddresses, SignerReturns)

Next ==
    \/ ChainExecutes
    \/ CreateTransaction
    \/ CreateRejectionTransaction
    \/ CreateRemoveOwnerTransaction
    \/ CreateSwapOwnerTransaction
    \/ CreateDisableModuleTransaction

Spec == Init /\ [][Next]_vars

---------------------------------------------------------------------------
(* SpecSign: callers create transactions and sign them *)

InitSign ==
    /\ Init
    /\ chainModules = <<>>
    /\ chainPageCap = 1

NextSign ==
    \/ ChainExecutes
    \/ CreateTransaction
    \/ SignTransaction

SpecSign == InitSign /\ [][NextSign]_vars

---------------------------------------------------------------------------
(* SpecModules: callers list the modules while the module list changes *)

ModuleListEnds == {SENTINEL, ZERO_ADDRESS}

InitModules ==
    /\ chainNonce = 0
    /\ chainOwners = <<OwnerLowA, OwnerUpB>>
    /\ chainThreshold = 1
    /\ chainModules \in ModuleLists
    /\ chainPageCap \in PageCaps
    /\ chainModulesEnd \in ModuleListEnds
    /\ chainProxies = {}
    /\ predicted = None
    /\ txData = None
    /\ signatures = <<>>
    /\ last = NoCall
    /\ effects = NoEffects
    /\ LocalUnused
    /\ batch = <<>>
    /\ encResult = NotCalled
    /\ sigRead = NotRead

\* a Safe transaction of another party enables or disables modules
ChainChangesModules ==
    /\ \E modules \in ModuleLists :
          /\ modules # chainModules
          /\ chainModules' = modules
    /\ UNCHANGED <<localVars, chainNonce, chainOwners, chainThreshold, chainPageCap,
                   chainModulesEnd, factoryVars, safeVars, sigVars, encVars>>

GetModules ==
    /\ LET got == get_modules
       IN  /\ last' = [error |-> "", args |-> <<>>, op |-> "get_modules"]
           /\ effects' = [NoEffects EXCEPT !.pageRequests = Len(got.requests),
                                           !.pages = got.requests,
                                           !.modulesReturned = <<got.modules>>]
    /\ UNCHANGED <<localVars, chainVars, factoryVars, txData, sigVars, encVars>>

NextModules == ChainChangesModules \/ GetModules

SpecModules == InitModules /\ [][NextModules]_vars

---------------------------------------------------------------------------
(* SpecMulti: a caller builds a list of calls and wraps it in a MultiSend *)

MULTI_SEND_ADDRESS == HexAddr(<<Lower(11), Lower(11)>>)

\* a slip of the wrapper: a plain call to the multi-send contract
WrapAsCall(multi_send_address, data) ==
    SafeTransactionData(multi_send_address, 0, data, 0, None)

\* SafeTransactionData(to=multi_send_address, value=0, data=data, operation=1)
MultiSendWrapper(multi_send_address, data) ==
    SafeTransactionData(multi_send_address, 0, data, 1, None)

\* the caller appends a call to the list, for a transaction yet to be made
AddSubCall ==
    /\ Len(batch) < MaxCalls
    /\ \E c \in Calls : batch' = Append(batch, c)
    /\ txData' = None
    /\ last' = NoCall
    /\ effects' = NoEffects
    /\ UNCHANGED <<localVars, encResult, sigVars, chainVars, factoryVars>>

\* the caller starts a new list after a call of the facade
NewBatch ==
    /\ last # NoCall
    /\ batch' = <<>>
    /\ txData' = None
    /\ last' = NoCall
    /\ effects' = NoEffects
    /\ UNCHANGED <<localVars, encResult, sigVars, chainVars, factoryVars>>

CreateMultiSendTransaction ==
    /\ \E multi_send_address \in {MULTI_SEND_ADDRESS} :
          LET encoded_txs == encode_transactions(batch)
              data == AbiData("multiSend", <<encoded_txs.bytes>>)
          IN  IF ~encoded_txs.ok
              THEN BuilderRaises("create_multi_send_transaction", <<multi_send_address>>,
                                 encoded_txs.error, NoEffects)
              ELSE BuilderReturns("create_multi_send_transaction", <<multi_send_address>>,
                      MultiSendWrapper(multi_send_address, data),
                      [NoEffects EXCEPT !.abiCalls = <<data>>])
    /\ UNCHANGED <<localVars, chainVars, factoryVars, sigRead, encVars>>

NextMulti == AddSubCall \/ NewBatch \/ CreateMultiSendTransaction

SpecMulti == InitEnc /\ [][NextMulti]_vars

---------------------------------------------------------------------------
(* errors.py: the table of Safe error codes and handle_contract_error *)

SAFE_ERRORS ==
    << [message |-> "Could not finish initialization", code |-> "GS000"],
       [message |-> "Threshold needs to be defined", code |-> "GS001"],
       [message |-> "Not enough gas to execute Safe transaction", code |-> "GS010"],
       [message |-> "Could not pay gas costs with ether", code |-> "GS011"],
       [message |-> "Could not pay gas costs with token", code |-> "GS012"],
       [message |-> "Safe transaction failed when gasPrice and safeTxGas were 0", code |-> "GS013"],
       [message |-> "Signatures data too short", code |-> "GS020"],
       [message |-> "Invalid signature provided", code |-> "GS021"],
       [message |-> "Invalid signature provided (duplicate)", code |-> "GS022"],
       [message |-> "Invalid signature provided (not owner)", code |-> "GS023"],
       [message |-> "Invalid signature provided (not sorted)", code |-> "GS024"],
       [message |-> "Invalid signature provided (v is 0)", code |-> "GS025"],
       [message |-> "Invalid signature provided (v > 30)", code |-> "GS026"],
       [message |-> "Only owners can approve a hash", code |-> "GS030"],
       [message |-> "Hash has already been approved", code |-> "GS031"],
       [message |-> "Modules have already been initialized", code |-> "GS100"],
       [message |-> "New owner cannot be the null address", code |-> "GS130"] >>

\* an exception: its type, the words of str(e), and for a
\* SafeTransactionError its error_code and message
Exception(type, words) ==
    [type |-> type, message |-> "", words |-> words, error_code |-> ""]
SafeTransactionError(message, error_code) ==
    [type |-> "SafeTransactionError", message |-> message,
     words |-> <<error_code \o ":", message>>, error_code |-> error_code]

\* `code in error_str`
CodeIn(code, e) == \E i \in 1..Len(e.words) : e.words[i] = code

\* handle_contract_error(e): the first code of the table that str(e)
\* contains gives a SafeTransactionError; else e itself is returned
handle_contract_error(e) ==
    IF \E k \in 1..Len(SAFE_ERRORS) : CodeIn(SAFE_ERRORS[k].code, e)
    THEN LET k == CHOOSE k \in 1..Len(SAFE_ERRORS) :
                    /\ CodeIn(SAFE_ERRORS[k].code, e)
                    /\ \A j \in 1..(k - 1) : ~CodeIn(SAFE_ERRORS[j].code, e)
         IN  SafeTransactionError(SAFE_ERRORS[k].message, SAFE_ERRORS[k].code)
    ELSE e

---------------------------------------------------------------------------
(* SpecTx: callers make transactions, sign, hash and execute them *)

\* the chain ids and verifying contracts get_eip712_data is called with
ChainIds == {CHAIN_ID, 5}
VerifyingContracts == {SAFE_ADDRESS, ToPlain}

\* what a submitted transaction may end in: mined, a revert with a Safe
\* error code, with two, with none, and a transport failure
Mined == Exception("", <<>>)
ChainReplies ==
    { Mined,
      Exception("ContractLogicError", <<"execution", "reverted:", "GS024">>),
      Exception("ContractLogicError", <<"execution", "reverted:", "GS026", "GS013">>),
      Exception("ContractLogicError", <<"execution", "reverted">>),
      Exception("ConnectionError", <<"connection", "refused">>) }

InitTx ==
    /\ InitSign
    /\ chainOwners = <<OwnerLowA, OwnerUpB>>

\* SafeTransaction(data=...): the model's constructor, called by the caller
ConstructTransaction ==
    /\ \E transaction_data \in TxInputs :
          /\ txData' = Some(transaction_data)
          /\ last' = [error |-> "", args |-> <<transaction_data>>, op |-> "SafeTransaction"]
    /\ signatures' = <<>>
    /\ effects' = NoEffects
    /\ UNCHANGED <<localVars, chainVars, factoryVars, sigRead, encVars>>

GetEip712Data ==
    /\ txData # None
    /\ \E chain_id \in ChainIds, safe_address \in VerifyingContracts :
          LET eip712 == get_eip712_data(txData[1], chain_id, safe_address)
          IN  /\ last' = [error |-> IF eip712.ok THEN "" ELSE "ValueError", args |-> <<chain_id, safe_address>>,
                          op |-> "get_eip712_data"]
              /\ effects' = [NoEffects EXCEPT
                                !.typedData = IF eip712.ok THEN <<eip712.document>> ELSE <<>>]
              /\ txData' = Some(eip712.self)
    /\ UNCHANGED <<localVars, chainVars, factoryVars, sigVars, encVars>>

GetTransactionHash ==
    /\ txData # None
    /\ LET hashed == get_transaction_hash(txData[1], NoEffects)
       IN  /\ last' = [error |-> hashed.error, args |-> <<>>, op |-> "get_transaction_hash"]
           /\ effects' = hashed.eff
    /\ UNCHANGED <<localVars, chainVars, factoryVars, txData, sigVars, encVars>>

\* execute_transaction: the sorted signatures are read, HexBytes(data) is
\* taken, execTransaction(...).transact(...) is submitted once; a failure
\* is handed to handle_contract_error and what that returns is raised
ExecuteTransaction ==
    /\ txData # None
    /\ \E reply \in ChainReplies :
          LET sorted_signatures == sorted_signatures_bytes(signatures)
              sent == [NoEffects EXCEPT
                         !.transacts = <<[reply |-> reply, fn |-> "execTransaction"]>>]
              error == handle_contract_error(reply)
          IN  IF ~sorted_signatures.ok \/ ~DataHexBytes(txData[1].data).ok
              THEN /\ last' = [error |-> "ValueError", args |-> <<>>,
                               op |-> "execute_transaction"]
                   /\ effects' = NoEffects
                   /\ UNCHANGED chainNonce
              ELSE IF reply = Mined
              THEN /\ chainNonce < MaxNonce
                   /\ chainNonce' = chainNonce + 1
                   /\ last' = [error |-> "", args |-> <<>>, op |-> "execute_transaction"]
                   /\ effects' = sent
              ELSE /\ last' = [error |-> error.type, args |-> <<>>,
                               op |-> "execute_transaction"]
                   /\ effects' = [sent EXCEPT !.raised = <<error>>]
                   /\ UNCHANGED chainNonce
    /\ UNCHANGED <<localVars, chainOwners, chainThreshold, chainModules, chainPageCap,
                   chainModulesEnd, factoryVars, txData, sigVars, encVars>>

NextTx ==
    \/ CreateTransaction
    \/ ConstructTransaction
    \/ GetEip712Data
    \/ SignTransaction
    \/ GetTransactionHash
    \/ ExecuteTransaction

SpecTx == InitTx /\ [][NextTx]_vars

---------------------------------------------------------------------------
(* SafeFactory, and the proxy factory contract as it replies *)

SINGLETON == HexAddr(<<Lower(12), Lower(12)>>)

SafeAccountConfig(owners, threshold) ==
    [data |-> DataEmpty, to |-> ZERO_ADDRESS, owners |-> owners,
     threshold |-> threshold, fallback_handler |-> ZERO_ADDRESS,
     payment_token |-> ZERO_ADDRESS, payment |-> 0, payment_receiver |-> ZERO_ADDRESS]

\* _get_initializer_data: encodeABI("setup", [...]) of the singleton; ok is
\* FALSE where HexBytes(config.data) raises
get_initializer_data(config, eff) ==
    LET initializer ==
            AbiData("setup",
                    <<config.owners, config.threshold, config.to,
                      HexBytes(config.data).bytes, config.fallback_handler,
                      config.payment_token, config.payment, config.payment_receiver>>)
    IN  IF ~HexBytes(config.data).ok
        THEN [ok |-> FALSE, eff |-> eff, initializer |-> initializer]
        ELSE [ok |-> TRUE, eff |-> [eff EXCEPT !.abiCalls = Append(@, initializer)],
              initializer |-> initializer]

\* the params of the prediction call
PredictParams(singleton, initializer, salt_nonce) ==
    [initializer |-> initializer, _singleton |-> singleton, saltNonce |-> salt_nonce]

\* a slip of the deployment: the salt nonce left at its default
DeployParamsDefaultSalt(singleton, initializer, salt_nonce) ==
    [initializer |-> initializer, _singleton |-> singleton, saltNonce |-> 0]

\* the params of the factory transaction
DeployParams(singleton, initializer, salt_nonce) ==
    [initializer |-> initializer, _singleton |-> singleton, saltNonce |-> salt_nonce]

\* the proxy a factory function creates for its params: CREATE2 gives one
\* address for one function, singleton, initializer and salt nonce
ProxyOf(fn, params) == [fn |-> fn, params |-> params]

\* Safe.setup as the new proxy runs it: it reverts unless
\* 1 <= threshold <= len(owners) and the owners are distinct
SetupSucceeds(initializer) ==
    LET owners == initializer.args[1]
        threshold == initializer.args[2]
    IN  /\ threshold >= 1
        /\ threshold <= Len(owners)
        /\ \A i, j \in 1..Len(owners) : i # j => owners[i] # owners[j]

NoException == Exception("", <<>>)
Reverted == Exception("ContractLogicError", <<"execution", "reverted">>)
Create2Failed ==
    Exception("ContractLogicError", <<"execution", "reverted:", "Create2", "call", "failed">>)
TransportFailed == Exception("ConnectionError", <<"connection", "refused">>)

\* what the factory function does on the chain as it is: it reverts when the
\* setup reverts or when the proxy exists already, else it creates the proxy
FactoryCreates(fn, params) ==
    IF ~SetupSucceeds(params.initializer)
    THEN [ok |-> FALSE, error |-> Reverted, proxy |-> None]
    ELSE IF ProxyOf(fn, params) \in chainProxies
    THEN [ok |-> FALSE, error |-> Create2Failed, proxy |-> None]
    ELSE [ok |-> TRUE, error |-> NoException, proxy |-> Some(ProxyOf(fn, params))]

\* a slip: every use of the factory function is sent as a transaction
FactoryTransactOnly(kind, fn, params, reply) ==
    [reply |-> reply, fn |-> fn, params |-> params, kind |-> "transact"]

FactoryCall(kind, fn, params, reply) ==
    [reply |-> reply, fn |-> fn, params |-> params, kind |-> kind]

\* predict_safe_address / predict_safe_address_v1_4_1: the initializer, then
\* fn(**params).call(); what the call raises is raised as it is
predict_safe_address(fn, config, salt_nonce, eff) ==
    LET made == get_initializer_data(config, eff)
        params == PredictParams(SINGLETON, made.initializer, salt_nonce)
        reply == FactoryCreates(fn, params)
        asked == [made.eff EXCEPT
                    !.factoryCalls = Append(@, FactoryCall("call", fn, params, reply))]
    IN  IF ~made.ok
        THEN [error |-> "ValueError", eff |-> made.eff, address |-> None]
        ELSE IF ~reply.ok
        THEN [error |-> reply.error.type, eff |-> asked, address |-> None]
        ELSE [error |-> "", eff |-> asked, address |-> reply.proxy]

---------------------------------------------------------------------------
(* SpecFactory: callers predict addresses and deploy Safes *)

SaltNonces == {0, 1}

\* configurations: one the contract accepts, and an empty owner list, a
\* duplicate owner and a threshold above the number of owners
Configs ==
    { SafeAccountConfig(<<OwnerLowA, OwnerUpB>>, 2),
      SafeAccountConfig(<<>>, 0),
      SafeAccountConfig(<<OwnerLowA, OwnerLowA>>, 1),
      SafeAccountConfig(<<OwnerLowA, OwnerUpB>>, 3) }

FactoryFunction(op) ==
    IF op \in {"predict_safe_address", "deploy_safe"}
    THEN "createProxyWithNonce" ELSE "createChainSpecificProxyWithNonce"

PredictSafeAddress ==
    /\ \E op \in {"predict_safe_address", "predict_safe_address_v1_4_1"},
          config \in Configs, salt_nonce \in SaltNonces :
          LET got == predict_safe_address(FactoryFunction(op), config, salt_nonce, NoEffects)
          IN  /\ last' = [error |-> got.error, args |-> <<config, salt_nonce>>, op |-> op]
              /\ effects' = [got.eff EXCEPT !.addressReturned = got.address]
              /\ predicted' = IF predicted # None THEN predicted
                               ELSE Some([error |-> got.error, op |-> op,
                                          config |-> config,
                                          salt_nonce |-> salt_nonce, address |-> got.address])
    /\ UNCHANGED <<localVars, chainVars, chainProxies, txData, sigVars, encVars>>

\* deploy_safe raised: no Safe is returned, the chain is as it was
DeployRaises(op, args, error, eff) ==
    /\ last' = [error |-> error, args |-> args, op |-> op]
    /\ effects' = eff
    /\ UNCHANGED chainProxies

\* deploy_safe / deploy_safe_v1_4_1: the signer test, the initializer, the
\* prediction, then fn(**params).transact({"from": signer}) once; a failure
\* of the transaction goes through handle_contract_error
DeploySafeWith(configs, salt_nonces) ==
    /\ \E op \in {"deploy_safe", "deploy_safe_v1_4_1"},
          config \in configs, salt_nonce \in salt_nonces,
          signer \in {None, Some(SIGNER)}, transport_fails \in BOOLEAN :
          LET fn == FactoryFunction(op)
              args == <<config, salt_nonce>>
              read == [NoEffects EXCEPT !.signerReads = <<signer>>]
              made == get_initializer_data(config, read)
              got == predict_safe_address(fn, config, salt_nonce, made.eff)
              params == DeployParams(SINGLETON, made.initializer, salt_nonce)
              reply == IF transport_fails
                       THEN [ok |-> FALSE, error |-> TransportFailed, proxy |-> None]
                       ELSE FactoryCreates(fn, params)
              sent == [got.eff EXCEPT
                         !.factoryCalls = Append(@, FactoryCall("transact", fn, params, reply))]
              error == handle_contract_error(reply.error)
          IN  IF NoSigner(signer)
              THEN DeployRaises(op, args, "ValueError: no signer", read)
              ELSE IF ~made.ok
              THEN DeployRaises(op, args, "ValueError", made.eff)
              ELSE IF got.error # ""
              THEN DeployRaises(op, args, got.error, got.eff)
              ELSE IF ~reply.ok
              THEN DeployRaises(op, args, error.type, [sent EXCEPT !.raised = <<error>>])
              ELSE /\ Cardinality(chainProxies) < MaxDeployed
                   /\ chainProxies' = chainProxies \cup {reply.proxy[1]}
                   /\ last' = [error |-> "", args |-> args, op |-> op]
                   /\ effects' = [sent EXCEPT !.addressReturned = got.address]
    /\ UNCHANGED <<localVars, chainVars, predicted, txData, sigVars, encVars>>

DeploySafe == DeploySafeWith(Configs, SaltNonces)

NextFactory == PredictSafeAddress \/ DeploySafe

SpecFactory == InitEnc /\ [][NextFactory]_vars

---------------------------------------------------------------------------
(* Properties of the batch encoder (SpecEnc) *)

Called == encResult # NotCalled

\* a call of the data model: 20-byte to, one-byte operation, uint256 value,
\* data that is hex text
ToDecodes20(tx) == HexBytes(tx.to).ok /\ Len(HexBytes(tx.to).bytes) = 20
InDataModel(tx) ==
    /\ Fits(tx.operation, 1)
    /\ Fits(tx.value, 32)
    /\ HexBytes(tx.data).ok

RecordLen(tx) == 1 + 20 + 32 + 32 + Len(HexBytes(tx.data).bytes)

RECURSIVE SumRecordLen(_, _)
SumRecordLen(txs, n) ==
    IF n = 0 THEN 0 ELSE SumRecordLen(txs, n - 1) + RecordLen(txs[n])

\* the number a big-endian byte string spells; -1 stands for every number of
\* more than three bytes, which no call of the model holds
RECURSIVE BigEndianValue(_)
BigEndianValue(bytes) ==
    IF bytes = <<>> THEN 0
    ELSE LET front == BigEndianValue(SubSeq(bytes, 1, Len(bytes) - 1))
         IN  IF front < 0 \/ front >= 256 * 256 THEN -1
             ELSE 256 * front + bytes[Len(bytes)]

\* record i of the output, read at the offset the claim gives
RecordAt(bytes, txs, i) ==
    LET off == SumRecordLen(txs, i - 1)
        tx == txs[i]
        data == HexBytes(tx.data).bytes
    IN  /\ off + RecordLen(tx) <= Len(bytes)
        /\ bytes[off + 1] = tx.operation
        /\ SubSeq(bytes, off + 2, off + 21) = HexBytes(tx.to).bytes
        /\ BigEndianValue(SubSeq(bytes, off + 22, off + 53)) = tx.value
        /\ BigEndianValue(SubSeq(bytes, off + 54, off + 85)) = Len(data)
        /\ SubSeq(bytes, off + 86, off + 85 + Len(data)) = data

\* C1: for every list of calls of the data model whose `to` decodes to 20
\* bytes, encode_transactions returns a byte string of length
\* sum(1 + 20 + 32 + 32 + len(data_i)) in which record i starts where records
\* 0..i-1 end and holds 1 byte operation, 20 bytes target, 32 bytes big-endian
\* value, 32 bytes big-endian data length, then the data; the empty list
\* encodes to the empty byte string.
C1_EncodeLayout ==
    (Called /\ \A i \in 1..Len(batch) : ToDecodes20(batch[i]) /\ InDataModel(batch[i]))
        => /\ encResult.ok
           /\ Len(encResult.bytes) = SumRecordLen(batch, Len(batch))
           /\ \A i \in 1..Len(batch) : RecordAt(encResult.bytes, batch, i)
           /\ (batch = <<>> => encResult.bytes = <<>>)

\* two calls with different data lengths were encoded (173 bytes, as in the test)
C1_Witness ==
    /\ Called /\ encResult.ok
    /\ Len(batch) = 2
    /\ batch[1].value = 100
    /\ Len(HexBytes(batch[2].data).bytes) = 3
    /\ Len(encResult.bytes) = 173

\* what the walk yields where the byte string ends inside a record
Truncated == [operation |-> -1, value |-> -1, data |-> <<>>, to |-> <<>>]

\* the walk of the record rule over a byte string, from position pos
RECURSIVE DecodeFrom(_, _)
DecodeFrom(bytes, pos) ==
    IF pos > Len(bytes) THEN <<>>
    ELSE IF pos + 84 > Len(bytes) THEN <<Truncated>>
    ELSE LET L == BigEndianValue(SubSeq(bytes, pos + 53, pos + 84))
         IN  IF L < 0 \/ pos + 84 + L > Len(bytes) THEN <<Truncated>>
             ELSE <<[operation |-> bytes[pos],
                     value |-> BigEndianValue(SubSeq(bytes, pos + 21, pos + 52)),
                     data |-> SubSeq(bytes, pos + 85, pos + 84 + L),
                     to |-> SubSeq(bytes, pos + 1, pos + 20)]>>
                  \o DecodeFrom(bytes, pos + 85 + L)

DecodeBatch(bytes) == DecodeFrom(bytes, 1)

\* the calls as the encoder reads them
Decoded(txs) ==
    [i \in 1..Len(txs) |->
        [operation |-> txs[i].operation,
         value |-> txs[i].value,
         data |-> HexBytes(txs[i].data).bytes,
         to |-> HexBytes(txs[i].to).bytes]]

\* C2: walking the record rule over the output of encode_transactions gives
\* back the calls (operation, to, value, data), in order and as many.
C2_RoundTrip ==
    (Called /\ encResult.ok) => DecodeBatch(encResult.bytes) = Decoded(batch)

\* a batch of two calls, the first with data, was encoded and decodes in two
C2_Witness ==
    /\ Called /\ encResult.ok
    /\ Len(batch) = 2
    /\ Len(HexBytes(batch[1].data).bytes) > 0
    /\ Len(DecodeBatch(encResult.bytes)) = 2

BadTo(txs) == {i \in 1..Len(txs) : ~ToDecodes20(txs[i])}
FirstBadTo(txs) == CHOOSE i \in BadTo(txs) : \A j \in BadTo(txs) : i <= j

\* C3: when a call of the list has a `to` that does not decode to 20 bytes,
\* whatever its position, encode_transactions returns nothing (no partial
\* encoding), and it raises the invalid-address ValueError when the calls
\* before it are of the data model and its operation fits one byte.
C3_InvalidAddress ==
    (Called /\ BadTo(batch) # {})
        => /\ ~encResult.ok
           /\ encResult.bytes = <<>>
           /\ LET k == FirstBadTo(batch)
              IN  ((\A j \in 1..(k - 1) : InDataModel(batch[j]))
                      /\ Fits(batch[k].operation, 1))
                    => (encResult.error = "ValueError" /\ encResult.field = "to")

\* a well-formed call followed by a 19-byte address was refused
C3_Witness ==
    /\ Called
    /\ Len(batch) = 2
    /\ ToDecodes20(batch[1]) /\ InDataModel(batch[1])
    /\ Len(HexBytes(batch[2].to).bytes) = 19
    /\ encResult.error = "ValueError"

---------------------------------------------------------------------------
(* Properties of the signature map (SpecSig) *)

WasRead == sigRead # NotRead

\* the owners are addresses (hex numbers), pairwise different as numbers
OwnersAreNumbers(d) == \A i \in 1..Len(d) : IntParses(d[i].owner)
DistinctOwners(d) ==
    /\ OwnersAreNumbers(d)
    /\ \A i, j \in 1..Len(d) : i # j => IntKey(d[i].owner) # IntKey(d[j].owner)

Orders(n) == {p \in [1..n -> 1..n] : \A i, j \in 1..n : i # j => p[i] # p[j]}

\* the dict that holds the entries of d, inserted in the order p
Reordered(d, p) == [i \in 1..Len(d) |-> d[p[i]]]

\* C4: for signatures of distinct owners, every insertion order of the same
\* (owner, signature) pairs gives the same sorted_signatures_bytes, and a read
\* leaves the stored signatures as they are: what was read is what a second
\* read gives.
C4_InsertionOrderInvariant ==
    /\ DistinctOwners(signatures) =>
          \A p \in Orders(Len(signatures)) :
              sorted_signatures_bytes(Reordered(signatures, p))
                  = sorted_signatures_bytes(signatures)
    /\ WasRead => sigRead = sorted_signatures_bytes(signatures)

\* three owners were added in an order that is not the numeric one, and read
C4_Witness ==
    /\ WasRead /\ sigRead.ok
    /\ Len(signatures) = 3
    /\ DistinctOwners(signatures)
    /\ IntLess(IntKey(signatures[3].owner), IntKey(signatures[1].owner))

RECURSIVE ConcatInOrder(_, _, _)
ConcatInOrder(d, p, n) ==
    IF n = 0 THEN <<>>
    ELSE ConcatInOrder(d, p, n - 1) \o HexBytes(d[p[n]].signature).bytes

\* p lists the entries of d by ascending number of the owner address
AscendingByNumber(d, p) ==
    \A i \in 1..(Len(d) - 1) :
        ~IntLess(IntKey(d[p[i + 1]].owner), IntKey(d[p[i]].owner))

\* C5: the bytes read are the stored signatures concatenated by ascending
\* number of the owner address, whatever the letter case of the keys, and
\* 65 x (number of stored owners) bytes long when every signature is 65 bytes.
C5_NumericOrder ==
    (/\ WasRead
     /\ OwnersAreNumbers(signatures)
     /\ \A i \in 1..Len(signatures) : HexBytes(signatures[i].signature).ok)
        => /\ sigRead.ok
           /\ \E p \in Orders(Len(signatures)) :
                 /\ AscendingByNumber(signatures, p)
                 /\ sigRead.bytes = ConcatInOrder(signatures, p, Len(signatures))
           /\ (\A i \in 1..Len(signatures) :
                   Len(HexBytes(signatures[i].signature).bytes) = SIGNATURE_BYTES)
                => Len(sigRead.bytes) = SIGNATURE_BYTES * Len(signatures)

\* two owners whose text order is the reverse of their numeric order, with
\* different 65-byte signatures, were read: 130 bytes
C5_Witness ==
    /\ WasRead /\ sigRead.ok
    /\ Len(signatures) = 2
    /\ StrLess(signatures[1].owner, signatures[2].owner)
    /\ IntLess(IntKey(signatures[2].owner), IntKey(signatures[1].owner))
    /\ signatures[1].signature # signatures[2].signature
    /\ Len(sigRead.bytes) = 130

\* C6: the signature map holds one signature per owner address: two
\* add_signature calls that name the same address in different letter case
\* overwrite each other, so no two entries are of the same numeric address.
C6_OneSignaturePerAddress ==
    \A i, j \in 1..Len(signatures) :
        (i # j /\ IntParses(signatures[i].owner) /\ IntParses(signatures[j].owner))
            => IntKey(signatures[i].owner) # IntKey(signatures[j].owner)

---------------------------------------------------------------------------
(* Properties of the builders (Spec) *)

SentinelText == Prefix0x \o Repeat(Digit(0), 39) \o <<Digit(1)>>

\* the call raised before any calldata was encoded or any nonce read, and
\* gave the caller no transaction
NothingBuilt ==
    /\ last.error = "ValueError"
    /\ txData = None
    /\ effects.abiCalls = <<>>
    /\ effects.nonceReads = <<>>

\* the call encoded fn_name once, with prev as first and target as second
\* argument, and returned a transaction that carries that calldata
BuiltWithPrevious(fn_name, prev, target) ==
    /\ last.error = ""
    /\ Len(effects.abiCalls) = 1
    /\ effects.abiCalls[1].fn_name = fn_name
    /\ effects.abiCalls[1].args[1] = prev
    /\ effects.abiCalls[1].args[2] = target
    /\ txData # None
    /\ txData[1].data = effects.abiCalls[1]

\* C7: create_remove_owner_transaction and create_swap_owner_transaction
\* read the owner list once and pass as prevOwner the sentinel 0x00..01 when
\* the target is the first entry of that list and the entry before it when
\* the target stands at a later index; a target that is not in the list
\* raises, with no calldata encoded, no nonce read and no transaction.
C7_PreviousOwner ==
    last.op \in {"create_remove_owner_transaction", "create_swap_owner_transaction"}
        => /\ Len(effects.ownersReads) = 1
           /\ LET owners == effects.ownersReads[1]
                  target == last.args[1]
                  fn_name == IF last.op = "create_remove_owner_transaction"
                             THEN "removeOwner" ELSE "swapOwner"
              IN  /\ (\A i \in 1..Len(owners) : owners[i] # target) => NothingBuilt
                  /\ (Len(owners) > 0 /\ owners[1] = target)
                        => BuiltWithPrevious(fn_name, SentinelText, target)
                  /\ \A i \in 2..Len(owners) :
                        owners[i] = target
                            => BuiltWithPrevious(fn_name, owners[i - 1], target)

\* the third of three owners was removed or swapped: prevOwner is the second
C7_Witness ==
    /\ last.op \in {"create_remove_owner_transaction", "create_swap_owner_transaction"}
    /\ last.error = ""
    /\ Len(effects.ownersReads[1]) = 3
    /\ effects.ownersReads[1][3] = last.args[1]
    /\ effects.abiCalls[1].args[1] = effects.ownersReads[1][2]

\* C8: create_disable_module_transaction resolves the previous module over
\* the contract's whole module list, however the list is cut into pages:
\* the sentinel for the first module, else the module before it; a module
\* that is not in the list raises and no transaction is produced.
C8_PreviousModule ==
    last.op = "create_disable_module_transaction"
        => LET target == last.args[1]
           IN  /\ (\A i \in 1..Len(chainModules) : chainModules[i] # target)
                     => NothingBuilt
               /\ (Len(chainModules) > 0 /\ chainModules[1] = target)
                     => BuiltWithPrevious("disableModule", SentinelText, target)
               /\ \A i \in 2..Len(chainModules) :
                     chainModules[i] = target
                         => BuiltWithPrevious("disableModule", chainModules[i - 1], target)

\* the first module of the second page was disabled: the module before it is
\* the last of the first page
C8_Witness ==
    /\ last.op = "create_disable_module_transaction"
    /\ last.error = ""
    /\ chainPageCap = PAGE_SIZE
    /\ Len(chainModules) > PAGE_SIZE
    /\ chainModules[PAGE_SIZE + 1] = last.args[1]
    /\ effects.pageRequests = 2
    /\ effects.abiCalls[1].args[1] = chainModules[PAGE_SIZE]

SameButNonce(a, b) ==
    /\ a.to = b.to /\ a.value = b.value /\ a.data = b.data
    /\ a.operation = b.operation
    /\ a.safe_tx_gas = b.safe_tx_gas /\ a.base_gas = b.base_gas
    /\ a.gas_price = b.gas_price /\ a.gas_token = b.gas_token
    /\ a.refund_receiver = b.refund_receiver

\* C10: create_transaction sets the nonce to the nonce it reads from the
\* contract exactly when the input nonce is unset; a given nonce, 0 included,
\* and the nonce handed to create_rejection_transaction are kept and no nonce
\* is read for them; the other fields are returned as given.
C10_NonceResolution ==
    /\ last.op = "create_transaction"
          => /\ txData # None
             /\ SameButNonce(txData[1], last.args[1])
             /\ last.args[1].nonce = None
                   => /\ Len(effects.nonceReads) = 1
                      /\ txData[1].nonce = Some(effects.nonceReads[1])
             /\ last.args[1].nonce # None
                   => /\ effects.nonceReads = <<>>
                      /\ txData[1].nonce = last.args[1].nonce
    /\ last.op = "create_rejection_transaction"
          => /\ txData # None
             /\ effects.nonceReads = <<>>
             /\ txData[1].nonce = Some(last.args[1])

\* a transaction was created with the explicit nonce 0 while the contract's
\* nonce is not 0
C10_Witness ==
    /\ last.op = "create_transaction"
    /\ last.args[1].nonce = Some(0)
    /\ txData[1].nonce = Some(0)
    /\ chainNonce > 0

---------------------------------------------------------------------------
(* Properties of signing (SpecSign) *)

LegacySigned ==
    /\ last.op = "sign_transaction"
    /\ last.args = <<"eth_sign">>
    /\ effects.signerReturned # <<>>

ReturnedBytes == HexBytes(effects.signerReturned[1]).bytes

\* the signature stored for the signer is r || s || (v + 4) of what the
\* signer returned, 65 bytes
StoredAdjusted ==
    /\ last.error = ""
    /\ \E i \in 1..Len(signatures) :
          /\ signatures[i].owner = SIGNER
          /\ LET stored == HexBytes(signatures[i].signature).bytes
             IN  /\ Len(stored) = 65
                 /\ SubSeq(stored, 1, 64) = SubSeq(ReturnedBytes, 1, 64)
                 /\ stored[65] = ReturnedBytes[65] + 4

\* C9 as claimed: legacy signing stores r || s || (v + 4) for any 65-byte
\* signature r || s || v the signer returns.
C9_AnySignature ==
    (LegacySigned /\ Len(ReturnedBytes) = 65) => StoredAdjusted

\* C9: legacy signing stores r || s || (v + 4), 65 bytes, for any 65-byte
\* signature r || s || v the signer returns with v <= 251 (27 -> 31,
\* 28 -> 32); for v >= 252, v + 4 is no byte and sign_transaction raises
\* ValueError; a sign_transaction that raises stores no signature.
C9_LegacyRecoveryId ==
    /\ [](LegacySigned /\ Len(ReturnedBytes) = 65
            => /\ ReturnedBytes[65] <= 251 => StoredAdjusted
               /\ ReturnedBytes[65] = 27 => \E i \in 1..Len(signatures) :
                     HexBytes(signatures[i].signature).bytes[65] = 31
               /\ ReturnedBytes[65] >= 252 => last.error = "ValueError")
    /\ [][(last'.op = "sign_transaction" /\ last'.error # "")
             => signatures' = signatures]_vars

\* a signature with v = 28 was signed the legacy way and stored with v = 32
C9_Witness ==
    /\ LegacySigned
    /\ last.error = ""
    /\ ReturnedBytes[65] = 28
    /\ Len(signatures) = 1
    /\ HexBytes(signatures[1].signature).bytes[65] = 32

---------------------------------------------------------------------------
(* Properties of signing, hashing and execution (SpecTx) *)

\* C11 as claimed: sign_transaction, get_transaction_hash and
\* execute_transaction never operate on a transaction whose nonce is unset.
C11_NonceResolved ==
    last.op \in {"sign_transaction", "get_transaction_hash", "execute_transaction"}
        => txData[1].nonce # None

SafeTxFieldNames ==
    <<"to", "value", "data", "operation", "safeTxGas", "baseGas", "gasPrice",
      "gasToken", "refundReceiver", "nonce">>

\* C12: the document get_eip712_data returns has the domain {chainId,
\* verifyingContract} with the values given, lists the SafeTx fields in the
\* order to, value, data, operation, safeTxGas, baseGas, gasPrice, gasToken,
\* refundReceiver, nonce, and its message carries the fields of the call (the
\* data as the bytes its hex text spells), with nonce 0 exactly when the
\* call's nonce is unset; the call is left as it was.
C12_TypedDataDocument ==
    /\ [](last.op = "get_eip712_data" /\ last.error = ""
            => LET document == effects.typedData[1]
                   message == document.message
                   self == txData[1]
               IN  /\ document.domain = [chainId |-> last.args[1],
                                         verifyingContract |-> last.args[2]]
                   /\ document.primaryType = "SafeTx"
                   /\ [i \in 1..Len(document.types.SafeTx) |->
                          document.types.SafeTx[i].name] = SafeTxFieldNames
                   /\ message.to = self.to
                   /\ message.value = self.value
                   /\ message.data.args[1] = HexBytes(self.data.args[1]).bytes
                   /\ message.operation = self.operation
                   /\ message.safeTxGas = self.safe_tx_gas
                   /\ message.baseGas = self.base_gas
                   /\ message.gasPrice = self.gas_price
                   /\ message.gasToken = self.gas_token
                   /\ message.refundReceiver = self.refund_receiver
                   /\ self.nonce = None => message.nonce = 0
                   /\ self.nonce # None => message.nonce = self.nonce[1])
    /\ [][last'.op = "get_eip712_data" => txData' = txData]_vars

\* the document of a call with no nonce, for chain 5: nonce 0 in the message,
\* no nonce in the call
C12_Witness ==
    /\ last.op = "get_eip712_data"
    /\ last.args[1] = 5
    /\ txData[1].nonce = None
    /\ effects.typedData[1].message.nonce = 0
    /\ effects.typedData[1].message.data.args[1] = <<171, 205, 239>>

SignedWithoutSigner ==
    /\ last.op = "sign_transaction"
    /\ NoSigner(effects.signerReads[1])

\* C13: with no signer in the adapter sign_transaction raises the no-signer
\* error, whatever the method; it has read no chain id, requested no hash,
\* built no document and called no signer, and the signatures stay as they
\* were.
C13_NoSigner ==
    /\ [](SignedWithoutSigner
            => /\ last.error = "ValueError: no signer"
               /\ effects.chainIdReads = 0
               /\ effects.hashReads = 0
               /\ effects.typedData = <<>>
               /\ effects.signerReturned = <<>>)
    /\ [][(last'.op = "sign_transaction" /\ NoSigner(effects'.signerReads[1]))
             => signatures' = signatures]_vars

\* legacy signing was asked of an adapter with no signer, for a transaction
\* that holds a signature
C13_Witness ==
    /\ SignedWithoutSigner
    /\ last.args = <<"eth_sign">>
    /\ last.error = "ValueError: no signer"
    /\ Len(signatures) = 1

OtherMethod ==
    /\ last.op = "sign_transaction"
    /\ last.args[1] \notin {"eth_sign_typed_data", "eth_sign"}

\* C14 as claimed: a method other than the two supported ones always ends in
\* the unsupported-method error.
C14_UnsupportedAlways ==
    OtherMethod => last.error = "ValueError: unsupported method"

\* C14: with a signer in the adapter, a method other than the two supported
\* ones ends in the unsupported-method error; with no signer the no-signer
\* error comes first; in both cases the signatures stay as they were.
C14_UnsupportedMethod ==
    /\ [](OtherMethod
            => IF NoSigner(effects.signerReads[1])
               THEN last.error = "ValueError: no signer"
               ELSE last.error = "ValueError: unsupported method")
    /\ [][(last'.op = "sign_transaction"
            /\ last'.args[1] \notin {"eth_sign_typed_data", "eth_sign"})
             => signatures' = signatures]_vars

\* an unsupported method was asked for a transaction the signer has signed
C14_Witness ==
    /\ OtherMethod
    /\ last.error = "ValueError: unsupported method"
    /\ effects.signerReads = <<Some(SIGNER)>>
    /\ Len(signatures) = 1
    /\ signatures[1].owner = SIGNER

\* C17 as claimed: a failed execTransaction is submitted once and raised as
\* the library's error type, with the code and the table's message when the
\* failure text holds a known code.
C17_ChainCallError ==
    (/\ last.op = "execute_transaction"
     /\ effects.transacts # <<>>
     /\ effects.transacts[1].reply # Mined)
        => /\ Len(effects.transacts) = 1
           /\ last.error = "SafeTransactionError"
           /\ \A k \in 1..Len(SAFE_ERRORS) :
                 (/\ CodeIn(SAFE_ERRORS[k].code, effects.transacts[1].reply)
                  /\ \A j \in 1..Len(SAFE_ERRORS) :
                        j # k => ~CodeIn(SAFE_ERRORS[j].code, effects.transacts[1].reply))
                    => /\ effects.raised[1].error_code = SAFE_ERRORS[k].code
                       /\ effects.raised[1].message = SAFE_ERRORS[k].message

---------------------------------------------------------------------------
(* Properties of the module listing (SpecModules) *)

ZeroText == Prefix0x \o Repeat(Digit(0), 40)

EndOfList(next) == next = SentinelText \/ next = ZeroText

RECURSIVE ArraysOf(_, _)
ArraysOf(pages, k) ==
    IF k > Len(pages) THEN <<>> ELSE pages[k].array \o ArraysOf(pages, k + 1)

\* C15: get_modules returns the arrays of the pages it fetched, concatenated
\* in request order; the first request starts at the sentinel, each later one
\* at the next pointer of the page before; the last page fetched is the first
\* whose next pointer is the sentinel or the zero address, and the number of
\* requests is the number of pages up to it.
C15_Pagination ==
    last.op = "get_modules"
        => LET pages == effects.pages
               n == Len(pages)
           IN  /\ n >= 1
               /\ effects.pageRequests = n
               /\ pages[1].start = SentinelText
               /\ \A k \in 2..n : pages[k].start = pages[k - 1].next
               /\ EndOfList(pages[n].next)
               /\ \A k \in 1..(n - 1) : ~EndOfList(pages[k].next)
               /\ effects.modulesReturned = <<ArraysOf(pages, 1)>>

\* the pages (<<M1>>, M1) and (<<M2>>, sentinel) gave <<M1, M2>> with two requests
C15_Witness ==
    /\ last.op = "get_modules"
    /\ effects.pageRequests = 2
    /\ effects.pages[1].array = <<ModuleAddr(1)>>
    /\ effects.pages[1].next = ModuleAddr(1)
    /\ effects.pages[2].start = ModuleAddr(1)
    /\ effects.pages[2].array = <<ModuleAddr(2)>>
    /\ effects.pages[2].next = SentinelText
    /\ effects.modulesReturned = <<(<<ModuleAddr(1), ModuleAddr(2)>>)>>

---------------------------------------------------------------------------
(* Properties of the batch builder (SpecMulti) *)

\* C16: create_multi_send_transaction returns a transaction to the
\* multi-send address with value 0 and operation 1, whatever the operations
\* of the sub-calls are, and the first byte of each sub-call's record in the
\* encoded batch is that sub-call's own operation.
C16_DelegateCallWrapper ==
    (last.op = "create_multi_send_transaction" /\ last.error = "")
        => /\ txData # None
           /\ txData[1].to = last.args[1]
           /\ txData[1].value = 0
           /\ txData[1].operation = 1
           /\ txData[1].data.fn_name = "multiSend"
           /\ LET encoded_txs == txData[1].data.args[1]
              IN  \A i \in 1..Len(batch) :
                     encoded_txs[SumRecordLen(batch, i - 1) + 1] = batch[i].operation

\* a plain call and a delegate call were wrapped, in this order
C16_Witness ==
    /\ last.op = "create_multi_send_transaction"
    /\ last.error = ""
    /\ Len(batch) = 2
    /\ batch[1].operation = 0
    /\ batch[2].operation = 1
    /\ txData[1].operation = 1
    /\ txData[1].data.args[1][1] = 0
    /\ txData[1].data.args[1][RecordLen(batch[1]) + 1] = 1

---------------------------------------------------------------------------
(* Properties of the SafeFactory (SpecFactory) *)

Deployed == last.op \in {"deploy_safe", "deploy_safe_v1_4_1"}
Predicted == last.op \in {"predict_safe_address", "predict_safe_address_v1_4_1"}

\* the setup encoding of a configuration, with the data "0x" as no bytes
SetupOf(config) ==
    [fn_name |-> "setup",
     args |-> <<config.owners, config.threshold, config.to, <<>>,
                config.fallback_handler, config.payment_token, config.payment,
                config.payment_receiver>>]

Transacts == {i \in 1..Len(effects.factoryCalls) : effects.factoryCalls[i].kind = "transact"}

\* C18: deploy_safe and deploy_safe_v1_4_1 make the prediction call before
\* the factory transaction, submit one transaction of the same factory
\* function with the singleton, initializer and salt nonce of the prediction,
\* and return a Safe bound to the address the prediction call returned; a
\* deployment that raises returns no Safe and has submitted at most one
\* transaction, after the prediction call.
C18_DeployAfterPrediction ==
    Deployed
        => LET calls == effects.factoryCalls
               fn == IF last.op = "deploy_safe" THEN "createProxyWithNonce"
                     ELSE "createChainSpecificProxyWithNonce"
               params == [initializer |-> SetupOf(last.args[1]),
                          _singleton |-> SINGLETON,
                          saltNonce |-> last.args[2]]
           IN  /\ Cardinality(Transacts) <= 1
               /\ \A i \in Transacts : i = 2 /\ calls[1].kind = "call"
               /\ last.error = ""
                     => /\ Len(calls) = 2
                        /\ calls[1].kind = "call" /\ calls[2].kind = "transact"
                        /\ calls[1].fn = fn /\ calls[2].fn = fn
                        /\ calls[1].params = params
                        /\ calls[2].params = params
                        /\ effects.addressReturned = calls[1].reply.proxy
                        /\ effects.addressReturned # None
               /\ last.error # "" => effects.addressReturned = None
               /\ (\E i \in Transacts : ~calls[i].reply.ok) => last.error # ""

\* a Safe was deployed with salt nonce 1 by the chain-specific function
C18_Witness ==
    /\ last.op = "deploy_safe_v1_4_1"
    /\ last.error = ""
    /\ last.args[2] = 1
    /\ Len(effects.factoryCalls) = 2
    /\ effects.factoryCalls[2].kind = "transact"
    /\ effects.factoryCalls[2].params.saltNonce = 1
    /\ effects.addressReturned # None
    /\ effects.addressReturned[1] \in chainProxies

\* C19 as claimed: a prediction with the inputs of an earlier prediction
\* returns what the earlier one returned, whatever was deployed in between.
C19_PureFunction ==
    (/\ Predicted
     /\ predicted # None
     /\ predicted[1].op = last.op
     /\ predicted[1].config = last.args[1]
     /\ predicted[1].salt_nonce = last.args[2])
        => /\ last.error = predicted[1].error
           /\ effects.addressReturned = predicted[1].address

ValidConfig(config) ==
    /\ Len(config.owners) >= 1
    /\ config.threshold >= 1
    /\ config.threshold <= Len(config.owners)
    /\ \A i, j \in 1..Len(config.owners) : i # j => config.owners[i] # config.owners[j]

\* C20 as claimed: a configuration with an empty or duplicate owner list or a
\* threshold outside 1..len(owners) is rejected before an initializer is
\* encoded and before any call or transaction to the factory.
C20_InvalidConfigRejected ==
    ((Predicted \/ Deployed) /\ ~ValidConfig(last.args[1]))
        => /\ last.error # ""
           /\ effects.abiCalls = <<>>
           /\ effects.factoryCalls = <<>>

\* C29: deploy_safe and deploy_safe_v1_4_1 called on an adapter without a
\* signer raise an error before any chain interaction: no initializer is
\* encoded, no prediction call is made and no factory transaction is
\* submitted.
C29_NoSignerNoChainInteraction ==
    /\ [](Deployed /\ effects.signerReads = <<None>>
            => /\ last.error # ""
               /\ effects.abiCalls = <<>>
               /\ effects.factoryCalls = <<>>
               /\ effects.addressReturned = <<>>)
    /\ [][(Deployed' /\ effects'.signerReads = <<None>>)
            => chainProxies' = chainProxies]_vars

\* deploy_safe_v1_4_1 of a valid configuration was refused for want of a
\* signer
C29_Witness ==
    /\ last.op = "deploy_safe_v1_4_1"
    /\ ValidConfig(last.args[1])
    /\ effects.signerReads = <<None>>
    /\ last.error = "ValueError: no signer"

---------------------------------------------------------------------------
(* Safe.__init__ *)

\* __init__(self, eth_adapter, safe_address): the names a call can bind
SafeInitParameters == {"eth_adapter", "safe_address"}

\* the interpreter's error for a keyword the signature does not have
UnexpectedKeyword(name) ==
    Exception("TypeError",
              <<"Safe.__init__()", "got", "an", "unexpected", "keyword", "argument", name>>)

\* Safe(**arguments): a keyword outside the signature raises TypeError before
\* the body runs; the body sets three attributes and checks nothing
Safe_init(arguments) ==
    IF \E name \in DOMAIN arguments : name \notin SafeInitParameters
    THEN [error |-> UnexpectedKeyword(
                       CHOOSE name \in DOMAIN arguments : name \notin SafeInitParameters),
          instance |-> None]
    ELSE [error |-> NoException,
          instance |-> Some([safe_address |-> arguments.safe_address,
                             eth_adapter |-> arguments.eth_adapter,
                             contract |-> arguments.safe_address])]

\* the adapter handed to the constructors: the chain it is connected to
ADAPTER == [chain_id |-> CHAIN_ID]

SafeAddresses == {SAFE_ADDRESS, ToPlain}

\* the calls of the constructor: without and with an expected chain id
ConstructorCalls ==
    [eth_adapter : {ADAPTER}, safe_address : SafeAddresses]
    \cup [eth_adapter : {ADAPTER}, safe_address : SafeAddresses, chain_id : ChainIds]

\* the Safe instances the accessors are called on
SafeInstances == { Safe_init([safe_address |-> a, eth_adapter |-> ADAPTER]).instance[1] :
                     a \in SafeAddresses }

\* a call that changes nothing but what the caller gets back
Answers(op, args, error, eff) ==
    /\ last' = [error |-> error, args |-> args, op |-> op]
    /\ effects' = eff
    /\ UNCHANGED <<localVars, chainVars, factoryVars, txData, sigVars, encVars>>

ConstructSafe ==
    \E arguments \in ConstructorCalls :
        LET got == Safe_init(arguments)
        IN  Answers("Safe", <<arguments>>, got.error.type,
                    [NoEffects EXCEPT
                        !.instance = got.instance,
                        !.raised = IF got.error = NoException THEN <<>>
                                   ELSE <<got.error>>])

---------------------------------------------------------------------------
(* get_guard, get_fallback_handler *)

\* keccak256("guard_manager.guard.address"), as 32 bytes
GUARD_STORAGE_SLOT ==
    << 74,  32,  79,  98,  12, 140,  92, 205, 202,  63, 213,  77,   0,  59, 109,  19,
       67,  84,  84, 167,  51, 165, 105, 248, 228, 166,  66, 110, 166,  43, 247, 160>>

\* keccak256("fallback_manager.handler.address"), as 32 bytes
FALLBACK_HANDLER_STORAGE_SLOT ==
    <<108, 154, 108,  74,  57,  40,  78,  55, 237,  28, 245,  61,  51, 117, 119, 209,
       66,  18, 164, 135,  15, 185, 118, 164,  54, 108, 105,  59, 147, 153,  24, 213>>

\* eth_getStorageAt: the word the chain holds at a position of an address;
\* a position never written holds zeros
get_storage_at(storage, address, position) ==
    IF address # storage.address THEN Repeat(0, WORD_BYTES)
    ELSE IF position = GUARD_STORAGE_SLOT THEN storage.guard
    ELSE IF position = FALLBACK_HANDLER_STORAGE_SLOT THEN storage.handler
    ELSE Repeat(0, WORD_BYTES)

StorageRead(storage, address, position) ==
    [data |-> get_storage_at(storage, address, position),
     address |-> address, position |-> position]

\* a slip of the slice: text[:n]
FirstChars(text, n) == SubSeq(text, 1, IF n < Len(text) THEN n ELSE Len(text))

\* text[-n:]
LastChars(text, n) ==
    SubSeq(text, IF Len(text) > n THEN Len(text) - n + 1 ELSE 1, Len(text))

\* "0x" + data.hex()[-40:]
AddressOfWord(data) == Prefix0x \o LastChars(HexDigits(data), 2 * ADDRESS_BYTES)

get_guard(self, storage) ==
    LET read == StorageRead(storage, self.safe_address, GUARD_STORAGE_SLOT)
    IN  [address |-> AddressOfWord(read.data), reads |-> <<read>>]

get_fallback_handler(self, storage) ==
    LET read == StorageRead(storage, self.safe_address, FALLBACK_HANDLER_STORAGE_SLOT)
    IN  [address |-> AddressOfWord(read.data), reads |-> <<read>>]

\* a storage word: 12 upper bytes, then the 20 bytes of an address
Word(upper, low) == Repeat(upper, WORD_BYTES - ADDRESS_BYTES) \o Repeat(low, ADDRESS_BYTES)

\* empty, two clean addresses, and a word whose upper bytes are not zero
Words == {Word(0, 0), Word(0, 18), Word(0, 52), Word(255, 171)}

\* the storage of one Safe on the chain
Storages == [address : SafeAddresses, guard : Words, handler : Words]

GetGuard ==
    \E self \in SafeInstances, storage \in Storages :
        LET got == get_guard(self, storage)
        IN  Answers("get_guard", <<self, storage>>, "",
                    [NoEffects EXCEPT !.storageReads = got.reads,
                                      !.addressReturned = <<got.address>>])

GetFallbackHandler ==
    \E self \in SafeInstances, storage \in Storages :
        LET got == get_fallback_handler(self, storage)
        IN  Answers("get_fallback_handler", <<self, storage>>, "",
                    [NoEffects EXCEPT !.storageReads = got.reads,
                                      !.addressReturned = <<got.address>>])

---------------------------------------------------------------------------
(* is_valid_signature (EIP-1271) *)

\* the EIP-1271 magic value 0x1626ba7e
EIP1271_MAGIC_VALUE == <<22, 38, 186, 126>>

\* what isValidSignature(...).call() ends in: the bytes returned, or a failure
CallReply(error, data) == [error |-> error, data |-> data]

\* a slip of the comparison: every reply but zeros counts as valid
ValidUnlessZero(message_hash, signature, reply) ==
    [returned |-> reply.data # Repeat(0, 4),
     calls |-> <<[args |-> <<message_hash, signature>>, reply |-> reply,
                  fn |-> "isValidSignature"]>>]

\* is_valid_signature(message_hash, signature): one call of the contract's
\* isValidSignature; true when the 4 bytes returned are the magic value,
\* false for any other reply and for a call that fails
is_valid_signature(message_hash, signature, reply) ==
    [returned |-> IF reply.error # NoException THEN FALSE
                  ELSE reply.data = EIP1271_MAGIC_VALUE,
     calls |-> <<[args |-> <<message_hash, signature>>, reply |-> reply,
                  fn |-> "isValidSignature"]>>]

MessageHashes == {Prefix0x \o HexDigits(Repeat(18, WORD_BYTES)),
                  Prefix0x \o HexDigits(Repeat(171, WORD_BYTES))}

\* the magic value, zeros, the magic value with one byte changed, its bytes
\* reversed, a revert and a transport failure
ValidationReplies ==
    { CallReply(NoException, EIP1271_MAGIC_VALUE),
      CallReply(NoException, Repeat(0, 4)),
      CallReply(NoException, <<22, 38, 186, 127>>),
      CallReply(NoException, <<126, 186, 38, 22>>),
      CallReply(NoException, Repeat(255, 4)),
      CallReply(Reverted, <<>>),
      CallReply(Exception("ContractLogicError", <<"execution", "reverted:", "GS026">>), <<>>),
      CallReply(TransportFailed, <<>>) }

IsValidSignature ==
    \E message_hash \in MessageHashes, signature \in SignatureTexts,
       reply \in ValidationReplies :
        LET got == is_valid_signature(message_hash, signature, reply)
        IN  Answers("is_valid_signature", <<message_hash, signature>>, "",
                    [NoEffects EXCEPT !.contractCalls = got.calls,
                                      !.boolReturned = <<got.returned>>])

---------------------------------------------------------------------------
(* SafeServiceClient *)

SERVICE_URL == "https://safe-transaction.example"

\* a response of the service: status line, and the body with what json() makes of it
Response(status_code, reason, content) ==
    [status_code |-> status_code, reason |-> reason, content |-> content]

\* str(status_code)
StatusText(status_code) ==
    CASE status_code = 200 -> "200"
      [] status_code = 201 -> "201"
      [] status_code = 204 -> "204"
      [] status_code = 304 -> "304"
      [] status_code = 404 -> "404"
      [] status_code = 422 -> "422"
      [] status_code = 500 -> "500"
      [] OTHER -> "?"

\* SafeServiceError(message, status_code): str() is "Status {code}: {message}"
\* when a status code is given, else the message
SafeServiceError(message, status_code) ==
    [type |-> "SafeServiceError",
     words |-> IF status_code # None
               THEN <<"Status", StatusText(status_code[1]) \o ":">> \o message
               ELSE message,
     status_code |-> status_code]

\* Response.raise_for_status(): HTTPError for 400..599, with the status, the
\* reason phrase and the url in its message, and nothing of the body
raise_for_status(response, url) ==
    IF response.status_code >= 400 /\ response.status_code < 500
    THEN <<StatusText(response.status_code), "Client", "Error:", response.reason,
           "for", "url:", url>>
    ELSE IF response.status_code >= 500 /\ response.status_code < 600
    THEN <<StatusText(response.status_code), "Server", "Error:", response.reason,
           "for", "url:", url>>
    ELSE <<>>

\* _handle_response(response): [returned, raised]
handle_response(response, url) ==
    LET http_error == raise_for_status(response, url)
    IN  IF http_error # <<>>
        THEN [raised |-> <<SafeServiceError(<<"Service", "error:">> \o http_error,
                                            Some(response.status_code))>>,
              returned |-> <<>>]
        ELSE IF response.content.text # ""
        THEN IF response.content.parses
             THEN [raised |-> <<>>, returned |-> <<Some(response.content.text)>>]
             ELSE [raised |-> <<SafeServiceError(
                                   <<"Unexpected", "error:", "Expecting", "value:",
                                     "line", "1", "column", "1", "(char", "0)">>,
                                   None)>>,
                   returned |-> <<>>]
        ELSE [raised |-> <<>>, returned |-> <<None>>]

NoContent == [text |-> "", parses |-> FALSE]
JsonDetail == [text |-> "{\"detail\": \"Not found.\"}", parses |-> TRUE]
HtmlPage == [text |-> "<html>Bad Gateway</html>", parses |-> FALSE]

Responses ==
    { Response(s[1], s[2], c) :
        s \in { <<200, "OK">>, <<201, "Created">>, <<204, "No Content">>,
                <<304, "Not Modified">>, <<404, "Not Found">>,
                <<422, "Unprocessable Entity">>, <<500, "Internal Server Error">> },
        c \in {NoContent, JsonDetail, HtmlPage} }

\* a request sent, with the response the service gave
HttpRequest(method, url, payload, response) ==
    [method |-> method, response |-> response, url |-> url, payload |-> payload]

\* a call of the client that posts and returns nothing of the response
Posts(op, args, url, payload) ==
    \E response \in Responses :
        LET got == handle_response(response, url)
        IN  Answers(op, args,
                    IF got.raised = <<>> THEN "" ELSE "SafeServiceError",
                    [NoEffects EXCEPT
                        !.httpRequests = <<HttpRequest("POST", url, payload, response)>>,
                        !.jsonReturned = got.returned,
                        !.serviceRaised = got.raised])

SafeTxHashes == {"0x1234", "0xabcd"}

ConfirmTransaction ==
    \E safe_tx_hash \in SafeTxHashes, signature \in SignatureTexts :
        Posts("confirm_transaction", <<safe_tx_hash, signature>>,
              SERVICE_URL \o "/v1/multisig-transactions/" \o safe_tx_hash
                  \o "/confirmations/",
              [signature |-> signature])

ProposeTransaction ==
    \E safe_tx_data \in TxInputs, safe_tx_hash \in SafeTxHashes :
        Posts("propose_transaction",
              <<"0xSafe", safe_tx_data, safe_tx_hash, "0xSender", SigOne>>,
              SERVICE_URL \o "/v1/safes/0xSafe/multisig-transactions/",
              [operation |-> safe_tx_data.operation,
               value |-> safe_tx_data.value,
               data |-> IF safe_tx_data.data = RawData(<<>>)
                        THEN None ELSE Some(safe_tx_data.data),
               to |-> safe_tx_data.to,
               nonce |-> safe_tx_data.nonce,
               signature |-> SigOne,
               safeTxGas |-> safe_tx_data.safe_tx_gas,
               baseGas |-> safe_tx_data.base_gas,
               gasPrice |-> safe_tx_data.gas_price,
               gasToken |-> safe_tx_data.gas_token,
               refundReceiver |-> safe_tx_data.refund_receiver,
               contractTransactionHash |-> safe_tx_hash,
               sender |-> "0xSender",
               origin |-> None])

---------------------------------------------------------------------------
(* SpecClient: a caller constructs facades, reads the guard and the       *)
(* fallback handler, validates signatures and talks to the service        *)

NextClient ==
    \/ ConstructSafe
    \/ GetGuard
    \/ GetFallbackHandler
    \/ IsValidSignature
    \/ ConfirmTransaction
    \/ ProposeTransaction

SpecClient == InitEnc /\ [][NextClient]_vars

---------------------------------------------------------------------------
(* Properties of SpecClient *)

ChainIdText(chain_id) == IF chain_id = 1 THEN "1" ELSE IF chain_id = 5 THEN "5" ELSE "?"

\* C21: constructing a Safe with an expected chain id succeeds and records
\* that chain id when it equals the adapter's chain id, and raises an error
\* naming both ids when they differ, and then no Safe instance is obtained.
C21_ChainIdValidated ==
    (last.op = "Safe" /\ "chain_id" \in DOMAIN last.args[1])
        => LET arguments == last.args[1]
           IN  IF arguments.chain_id = arguments.eth_adapter.chain_id
               THEN /\ last.error = ""
                    /\ effects.instance # <<>>
                    /\ "chain_id" \in DOMAIN effects.instance[1]
                    /\ effects.instance[1].chain_id = arguments.chain_id
               ELSE /\ last.error # ""
                    /\ effects.instance = <<>>
                    /\ effects.raised # <<>>
                    /\ CodeIn(ChainIdText(arguments.chain_id), effects.raised[1])
                    /\ CodeIn(ChainIdText(arguments.eth_adapter.chain_id),
                              effects.raised[1])

\* the bytes of the 4-byte value 0x1626ba7e
MagicBytes == HexBytes(<<Digit(1), Digit(6), Digit(2), Digit(6),
                         Lower(11), Lower(10), Digit(7), Lower(14)>>).bytes

\* C22: is_valid_signature returns true only when the contract's
\* isValidSignature reply is the 4-byte value 0x1626ba7e; any other reply and
\* any failure of the call give false, and the operation never raises.
C22_MagicValueOnly ==
    last.op = "is_valid_signature"
        => /\ last.error = ""
           /\ Len(effects.contractCalls) = 1
           /\ effects.contractCalls[1].fn = "isValidSignature"
           /\ effects.contractCalls[1].args = last.args
           /\ LET reply == effects.contractCalls[1].reply
              IN  effects.boolReturned =
                      <<reply.error.type = "" /\ reply.data = MagicBytes>>

C22_Witness ==
    /\ last.op = "is_valid_signature"
    /\ effects.boolReturned = <<TRUE>>
    /\ effects.contractCalls[1].reply.data = <<22, 38, 186, 126>>

\* the response a call of the service client received
ResponseOf == effects.httpRequests[1].response
ServiceCalls == {"confirm_transaction", "propose_transaction"}

\* C23: every relay request that receives a non-2xx response raises a
\* structured relay error that carries the HTTP status code and the response
\* body; a 2xx response with an empty body returns no value without raising.
C23_RelayError ==
    last.op \in ServiceCalls
        => /\ ResponseOf.status_code \notin 200..299
                => /\ effects.serviceRaised # <<>>
                   /\ effects.serviceRaised[1].status_code = Some(ResponseOf.status_code)
                   /\ \/ ResponseOf.content.text = ""
                      \/ CodeIn(ResponseOf.content.text, effects.serviceRaised[1])
           /\ (ResponseOf.status_code \in 200..299 /\ ResponseOf.content.text = "")
                => /\ effects.serviceRaised = <<>>
                   /\ effects.jsonReturned = <<None>>

\* the 32 bytes of a slot given by its 64 hex digits
SlotOf(digits) == [i \in 1..32 |-> 16 * digits[2 * i - 1] + digits[2 * i]]
GuardSlot ==
    SlotOf(<<4, 10, 2, 0, 4, 15, 6, 2, 0, 12, 8, 12, 5, 12, 12, 13, 12, 10, 3, 15, 13, 5, 4, 13, 0, 0, 3, 11, 6, 13, 1, 3, 4, 3, 5, 4, 5, 4, 10, 7, 3, 3, 10, 5, 6, 9, 15, 8, 14, 4, 10, 6, 4, 2, 6, 14, 10, 6, 2, 11, 15, 7, 10, 0>>)
FallbackHandlerSlot ==
    SlotOf(<<6, 12, 9, 10, 6, 12, 4, 10, 3, 9, 2, 8, 4, 14, 3, 7, 14, 13, 1, 12, 15, 5, 3, 13, 3, 3, 7, 5, 7, 7, 13, 1, 4, 2, 1, 2, 10, 4, 8, 7, 0, 15, 11, 9, 7, 6, 10, 4, 3, 6, 6, 12, 6, 9, 3, 11, 9, 3, 9, 9, 1, 8, 13, 5>>)

\* the word the chain holds at a slot of the Safe the accessor was called on
WordAt(slot) ==
    LET self == last.args[1]
        storage == last.args[2]
    IN  IF storage.address # self.safe_address THEN [i \in 1..32 |-> 0]
        ELSE IF slot = GuardSlot THEN storage.guard
        ELSE storage.handler

\* one read of the slot at the Safe's own address, and "0x" with the hex of
\* the low 20 bytes of the word read
ReadsSlot(slot) ==
    /\ last.error = ""
    /\ Len(effects.storageReads) = 1
    /\ effects.storageReads[1].address = last.args[1].safe_address
    /\ effects.storageReads[1].position = slot
    /\ effects.addressReturned =
          <<Prefix0x \o HexDigits(SubSeq(WordAt(slot), 13, 32))>>

---------------------------------------------------------------------------
(* Properties of the nonce the builders resolve (Spec) *)

\* the calls that build a transaction and are given no nonce
BuildsWithUnsetNonce ==
    /\ last.error = ""
    /\ txData # None
    /\ last.op # ""
    /\ last.op # "create_rejection_transaction"
    /\ last.op = "create_transaction" => last.args[1].nonce = None

\* a step of the facade: the chain is as it was and a call was made
FacadeStep ==
    /\ chainNonce' = chainNonce
    /\ <<txData, last, effects>>' # <<txData, last, effects>>

\* C26: the library keeps no cached or locally counted nonce: every builder
\* or create_transaction call with an unset nonce reads the on-chain nonce
\* anew and uses it, so two transactions built with no execution in between
\* carry the same nonce, and one built after the on-chain nonce changed
\* carries the new value.
C26_NonceReadAnew ==
    /\ [][(FacadeStep /\ BuildsWithUnsetNonce')
            => /\ effects'.nonceReads = <<chainNonce'>>
               /\ txData'[1].nonce = Some(chainNonce')]_vars
    /\ [][(FacadeStep /\ BuildsWithUnsetNonce /\ BuildsWithUnsetNonce'
             /\ txData[1].nonce = Some(chainNonce))
            => txData'[1].nonce = txData[1].nonce]_vars
    /\ [](BuildsWithUnsetNonce
            => /\ Len(effects.nonceReads) = 1
               /\ txData[1].nonce = Some(effects.nonceReads[1]))

\* a transaction built with no nonce given after the contract's nonce moved
\* twice carries the contract's nonce of that moment
C26_Witness ==
    /\ last.op = "create_transaction"
    /\ last.args[1].nonce = None
    /\ chainNonce = 2
    /\ effects.nonceReads = <<2>>
    /\ txData[1].nonce = Some(2)

---------------------------------------------------------------------------
(* SpecShare: the caller keeps its SafeTransactionData objects and hands  *)
(* them to create_transaction, more than once, while the chain moves on   *)

\* a slip: the nonce is resolved on a copy, which the transaction gets
ResolvedOnCopy(objects, ref, data) ==
    [objects |-> Append(objects, data), ref |-> Len(objects) + 1]

\* `transaction_data.nonce = ...` writes the caller's object, and
\* SafeTransaction(data=transaction_data) keeps that object as its data
ResolvedInPlace(objects, ref, data) ==
    [objects |-> [objects EXCEPT ![ref] = data], ref |-> ref]

InitShare == InitTx

\* SafeTransactionData(...): the caller makes an object
NewTransactionData ==
    /\ Len(heap) < MaxObjects
    /\ \E transaction_data \in TxInputs :
          /\ heap' = Append(heap, transaction_data)
          /\ last' = [error |-> "", args |-> <<transaction_data>>,
                      op |-> "SafeTransactionData"]
    /\ effects' = NoEffects
    /\ UNCHANGED <<txRef, loop, txData, chainVars, factoryVars, sigVars, encVars>>

\* safe.create_transaction(obj) for an object the caller holds
CreateTransactionOf ==
    /\ \E ref \in 1..Len(heap) :
          LET made == create_transaction(heap[ref], NoEffects)
              kept == ResolvedInPlace(heap, ref, made.data)
          IN  /\ heap' = kept.objects
              /\ txRef' = Some(kept.ref)
              /\ BuilderReturns("create_transaction", <<ref>>, heap[ref], NoEffects)
    /\ UNCHANGED <<loop, chainVars, factoryVars, sigRead, encVars>>

NextShare ==
    \/ ChainExecutes
    \/ NewTransactionData
    \/ CreateTransactionOf

SpecShare == InitShare /\ [][NextShare]_vars

---------------------------------------------------------------------------
(* Properties of SpecShare *)

\* the object handed to the create_transaction call made last
HandedOver == heap[last.args[1]]

\* C27: create_transaction resolves the nonce by writing it into the caller's
\* SafeTransactionData object, which the returned SafeTransaction then
\* shares: after the call the caller's object has the resolved nonce, and
\* handing the same object to create_transaction again after the on-chain
\* nonce has advanced returns a transaction that still carries the first
\* nonce, with no new on-chain read.
C27_CallerObjectWritten ==
    /\ [](last.op = "create_transaction"
            => /\ txRef = Some(last.args[1])
               /\ txData = Some(HandedOver)
               /\ HandedOver.nonce # None
               /\ effects.nonceReads # <<>>
                     => HandedOver.nonce = Some(effects.nonceReads[1]))
    /\ [][\A ref \in 1..Len(heap) :
            (/\ last'.op = "create_transaction"
             /\ last'.args = <<ref>>
             /\ chainNonce' = chainNonce
             /\ heap[ref].nonce # None)
                => /\ effects'.nonceReads = <<>>
                   /\ heap' = heap
                   /\ txData' = Some(heap[ref])]_vars

\* an object made without a nonce, resolved when the contract's nonce was 0,
\* was handed over again when the contract's nonce was 2
C27_Witness ==
    /\ last.op = "create_transaction"
    /\ HandedOver.to = ToNoPrefix
    /\ HandedOver.nonce = Some(0)
    /\ txRef = Some(last.args[1])
    /\ chainNonce = 2
    /\ effects.nonceReads = <<>>

---------------------------------------------------------------------------
(* SpecSigners: one SafeTransaction is signed by several owners, each     *)
(* with an adapter of their own                                           *)

\* the signer addresses of the owners' adapters
CoSigners == {Some(SIGNER), Some(OwnerLowA)}

\* what their signers return
CoSignerReturns == {SigOne, SigTwo}

CoSignTransaction == SignTransactionWith(CoSigners, CoSignerReturns)

NextSigners ==
    \/ CreateTransaction
    \/ CoSignTransaction

SpecSigners == InitTx /\ [][NextSigners]_vars

---------------------------------------------------------------------------
(* Properties of SpecSigners *)

\* the owners that have an entry in a signature map
KeysOf(d) == {d[i].owner : i \in 1..Len(d)}

\* the signature a map holds for an owner that has an entry
SignatureOf(d, owner) == d[DictGet(d, owner)].signature

\* C28: a successful sign_transaction changes exactly one entry of the
\* transaction's signature map, the one keyed by the adapter's signer address
\* (added, or replaced when that signer signed before); the signatures of
\* every other owner and all fields of the transaction data are unchanged,
\* so after signing by k distinct signers in any order the map holds exactly
\* those k entries.
C28_OneEntryChanged ==
    /\ [][(/\ last'.op = "sign_transaction"
           /\ last'.error = ""
           /\ txData' # None
           /\ <<signatures, effects>>' # <<signatures, effects>>)
            => LET signer == effects'.signerReads[1][1]
               IN  /\ txData' = txData
                   /\ KeysOf(signatures') = KeysOf(signatures) \cup {signer}
                   /\ Len(signatures') = Cardinality(KeysOf(signatures'))
                   /\ \A owner \in KeysOf(signatures) \ {signer} :
                         SignatureOf(signatures', owner) = SignatureOf(signatures, owner)]_vars
    /\ [](Len(signatures) = Cardinality(KeysOf(signatures)))

\* two owners have signed, the one with the higher address first, and the
\* owner who signed first has signed once more
C28_Witness ==
    /\ last.op = "sign_transaction"
    /\ last.error = ""
    /\ effects.signerReads = <<Some(SIGNER)>>
    /\ Len(signatures) = 2
    /\ signatures[1].owner = SIGNER
    /\ signatures[2].owner = OwnerLowA

---------------------------------------------------------------------------
(* approve_hash, and SpecSubmit: every kind of call of the facade and of  *)
(* the factory, in any order                                              *)

\* a transaction hash, and text that is no hex
HashesToApprove == {Prefix0x \o HexDigits(Repeat(18, WORD_BYTES)), ToNotHex}

\* approve_hash: HexBytes(hash_to_approve) is taken, then
\* approveHash(...).transact(...) is submitted once; a failure of either is
\* handed to handle_contract_error and what that returns is raised
ApproveHash ==
    /\ \E hash_to_approve \in HashesToApprove, reply \in ChainReplies :
          LET sent == [NoEffects EXCEPT
                         !.transacts = <<[reply |-> reply, fn |-> "approveHash"]>>]
              error == handle_contract_error(reply)
              invalid == handle_contract_error(Exception("ValueError", <<"Non-hexadecimal", "digit", "found">>))
          IN  IF ~HexBytes(hash_to_approve).ok
              THEN /\ last' = [error |-> invalid.type, args |-> <<hash_to_approve>>,
                               op |-> "approve_hash"]
                   /\ effects' = [NoEffects EXCEPT !.raised = <<invalid>>]
              ELSE IF reply = Mined
              THEN /\ last' = [error |-> "", args |-> <<hash_to_approve>>,
                               op |-> "approve_hash"]
                   /\ effects' = sent
              ELSE /\ last' = [error |-> error.type, args |-> <<hash_to_approve>>,
                               op |-> "approve_hash"]
                   /\ effects' = [sent EXCEPT !.raised = <<error>>]
    /\ UNCHANGED <<localVars, chainVars, factoryVars, txData, sigVars, encVars>>

\* sign_transaction by the one signer, whose signer returns one signature
SignTransactionOnce == SignTransactionWith({Some(SIGNER)}, {SigOne})

\* the deployments of one configuration with the salt nonce 0
DeployOneSafe == DeploySafeWith({SafeAccountConfig(<<OwnerLowA, OwnerUpB>>, 2)}, {0})

NextSubmit ==
    \/ GetModules
    \/ CreateRejectionTransaction
    \/ CreateTransaction
    \/ SignTransactionOnce
    \/ ExecuteTransaction
    \/ ApproveHash
    \/ DeployOneSafe

SpecSubmit == InitTx /\ [][NextSubmit]_vars

---------------------------------------------------------------------------
(* Properties of SpecSubmit *)

\* the operations that submit a transaction
Submitters == {"execute_transaction", "approve_hash", "deploy_safe", "deploy_safe_v1_4_1"}

\* the transactions the call made last has submitted, to the Safe contract
\* and to the proxy factory
Submitted == Len(effects.transacts) + Cardinality(Transacts)

\* C24 as claimed: no accessor, builder, create_transaction or
\* sign_transaction call submits a transaction; execute_transaction,
\* approve_hash and the factory deploy operations submit exactly one per call.
C24_ExactlyOnePerCall ==
    /\ last.op \notin Submitters => Submitted = 0
    /\ last.op \in Submitters => Submitted = 1

\* C24 (amended): no accessor, builder, create_transaction or sign_transaction
\* call submits a transaction; execute_transaction, approve_hash and the
\* factory deploy operations submit at most one per call, exactly one when
\* the call returns and none only when it raises before the submission; the
\* contract's nonce and the factory's proxies change in no other call.
C24_AtMostOnePerCall ==
    /\ [](last.op \notin Submitters => Submitted = 0)
    /\ [](last.op \in Submitters
            => /\ Submitted <= 1
               /\ last.error = "" => Submitted = 1
               /\ Submitted = 0 => last.error # "")
    /\ [][(chainNonce' # chainNonce \/ chainProxies' # chainProxies)
            => /\ last'.op \in Submitters \ {"approve_hash"}
               /\ last'.error = ""
               /\ Submitted' = 1]_vars

\* a signed transaction was executed: one transaction was submitted by that
\* call, after calls that submitted none
C24_Witness ==
    /\ last.op = "execute_transaction"
    /\ last.error = ""
    /\ signatures # <<>>
    /\ Submitted = 1
    /\ chainNonce = 1
---------------------------------------------------------------------------
(* SpecLoop: get_modules, one iteration of its `while True:` at a time *)

\* a slip of the test that ends the loop: the zero address is not looked for
EndsAtSentinelOnly(next_module) == next_module = SENTINEL

\* the test that ends the loop:
\* next_module == "0x00..01" or next_module == "0x00..00"
LoopEnds(next_module) == next_module = SENTINEL \/ next_module = ZERO_ADDRESS

\* the next pointer a contract gives at the end of its list: the sentinel,
\* the zero address, or a module, which is a start that was used before
NextPointersAtEnd == {SENTINEL, ZERO_ADDRESS, ModuleAddr(1)}

InitLoop ==
    /\ chainNonce = 0
    /\ chainOwners = <<OwnerLowA, OwnerUpB>>
    /\ chainThreshold = 1
    /\ chainModules \in ModuleLists
    /\ chainPageCap \in PageCaps
    /\ chainModulesEnd \in NextPointersAtEnd
    /\ chainProxies = {}
    /\ predicted = None
    /\ txData = None
    /\ signatures = <<>>
    /\ last = NoCall
    /\ effects = NoEffects
    /\ LocalUnused
    /\ batch = <<>>
    /\ encResult = NotCalled
    /\ sigRead = NotRead

\* get_modules is called: start is the sentinel, modules is the empty list
StartGetModules ==
    /\ loop.pc # "running"
    /\ loop' = [pc |-> "running", start |-> SENTINEL, modules |-> <<>>, requests |-> 0]
    /\ effects' = NoEffects
    /\ UNCHANGED <<heap, txRef, last, chainVars, factoryVars, txData, sigVars, encVars>>

\* one iteration: the request, modules.extend(array), then the test: break
\* and return modules, or start = next_module. The loop itself has no
\* bound; MaxPages bounds the iterations that are explored
RequestPage ==
    /\ loop.pc = "running"
    /\ loop.requests < MaxPages
    /\ LET page == getModulesPaginated(loop.start, PAGE_SIZE)
           modules == loop.modules \o page.array
           asked == [effects EXCEPT !.pageRequests = @ + 1,
                                    !.pages = Append(@, PageRequest(loop.start, page))]
       IN  IF LoopEnds(page.next)
           THEN /\ loop' = [pc |-> "returned", start |-> loop.start,
                            modules |-> modules, requests |-> loop.requests + 1]
                /\ last' = [error |-> "", args |-> <<>>, op |-> "get_modules"]
                /\ effects' = [asked EXCEPT !.modulesReturned = <<modules>>]
           ELSE /\ loop' = [pc |-> "running", start |-> page.next,
                            modules |-> modules, requests |-> loop.requests + 1]
                /\ last' = last
                /\ effects' = asked
    /\ UNCHANGED <<heap, txRef, chainVars, factoryVars, txData, sigVars, encVars>>

NextLoop == StartGetModules \/ RequestPage

SpecLoop == InitLoop /\ [][NextLoop]_vars

\* the interpreter goes on with a loop that can go on
FairSpecLoop == SpecLoop /\ WF_vars(RequestPage)

---------------------------------------------------------------------------
(* Properties of FairSpecLoop *)

\* the requests follow the next pointers from the sentinel on, and only the
\* last of them was answered by a terminator
FollowsNextPointers(pages) ==
    /\ pages # <<>>
    /\ pages[1].start = SENTINEL
    /\ \A i \in 1..(Len(pages) - 1) :
          ~EndOfList(pages[i].next) /\ pages[i + 1].start = pages[i].next
    /\ EndOfList(pages[Len(pages)].next)

\* C30: get_modules returns once the next pointers reach the sentinel or the
\* zero address, having made exactly the requests up to that page (and it
\* returns the arrays of these pages); while the contract ends its list with
\* another pointer it never returns and, having no bound of its own, makes
\* as many requests as it is given time for
C30_TerminatesOnTerminatorOnly ==
    /\ [](loop.pc = "returned"
            => /\ FollowsNextPointers(effects.pages)
               /\ loop.requests = Len(effects.pages)
               /\ effects.pageRequests = Len(effects.pages)
               /\ effects.modulesReturned = <<ArraysOf(effects.pages, 1)>>)
    /\ [](~EndOfList(chainModulesEnd) => loop.pc # "returned")
    /\ (loop.pc = "running" /\ EndOfList(chainModulesEnd)) ~> (loop.pc = "returned")
    /\ (loop.pc = "running" /\ ~EndOfList(chainModulesEnd))
          ~> (loop.pc = "running" /\ loop.requests = MaxPages)

\* C30 witness: the next pointers came back to a start used before, and the
\* loop is still requesting pages after MaxPages requests
C30_Witness ==
    /\ loop.pc = "running"
    /\ loop.requests = MaxPages
    /\ Len(effects.pages) = MaxPages
    /\ \E i, j \in 1..Len(effects.pages) : i < j /\ effects.pages[i].start = effects.pages[j].start
====
